---- MODULE Spec2Model ----
(***************************************************************************)
(* Model of scripts/parallelMappingEvaluation.py: the work planner of      *)
(* run_region_alignments, the recursive fan-out of recursively_run_samples *)
(* and the store effects of the leaf tasks run_alignment and run_stats,    *)
(* for one (region, graph).                                                *)
(*                                                                         *)
(* Samples are the integers 1..N in the order of input_samples.  The       *)
(* output store holds, per sample, the alignment artifact (size, mtime)    *)
(* and the mtime of the stats artifact; an artifact that does not exist    *)
(* has None for all of its metadata, as get_size / get_mtime return it.    *)
(* The program is Python 2: None orders below every number, which the      *)
(* value chosen for None reproduces, and "/" on integers is floor          *)
(* division.                                                               *)
(***************************************************************************)
EXTENDS Integers, Sequences, FiniteSets, Bags, TLC

(* ------------------------------ bounds --------------------------------- *)
\* Longest pending list of the scheduler family of initial states.
MaxSamples == 8
\* Most candidate samples of the planner family of initial states.
MaxPlanSamples == 1
\* Largest batch size (num_per_call).
MaxBatch == 3
\* Latest modification time of the artifacts the planner finds.
MaxTime == 1
\* Largest artifact size.
MaxSize == 1

\* Most records of an alignment stream.
MaxStream == 3
\* Most mappings of a path, most edits of a path.
MaxMappings == 2
MaxEdits == 3

\* Most lines (regions with their graph) of the server list.
MaxLines == 2

(* ----------------------------- constants ------------------------------- *)
\* What get_size / get_mtime return for a key that does not exist.
None == -1

Times == 0..MaxTime
\* The instant after which no leaf task starts; every run of a leaf task
\* takes one tick of the clock, and a sample takes two runs (run_alignment,
\* then run_stats).  A run that starts at MaxTime can give one sample both
\* its runs and every other sample of the longest list one run.
Horizon == MaxTime + MaxSamples + 1
\* How many samples of the fair family run both their leaf tasks.
FairSamples == 2
Sizes == 0..MaxSize

VARIABLES
    options,            \* the parsed options the planner and scheduler read
    num_per_call,       \* batch size of recursively_run_samples
    input_samples,      \* candidate sample IDs, in listing order
    gam,                \* out_store: sample -> [size, mtime] of its .gam
    stats,              \* out_store: sample -> mtime of its stats .json
    now,                \* the clock that stamps store writes
    pc,                 \* "plan", then "queued" or "returned"
    seen,               \* the metadata snapshot run_region_alignments read
    completed_samples,  \* run_region_alignments: completed_samples
    samples_to_run,     \* run_region_alignments: samples_to_run
    pending,            \* lists of the recursively_run_samples jobs not yet run
    ran,                \* one record per recursively_run_samples job that ran
    leaf,               \* sample -> kind of leaf submitted for it
    task,               \* sample -> state of its leaf task chain
    failed_jobs,        \* main: what Job.Runner.startToil returned
    report              \* main: "none", then "success" or "raised"

\* run_stats, the metrics of one scored record (lines 1178-1325).
VARIABLES
    wpc,                \* position in the loops over mappings and edits
    length,             \* len(alignment["sequence"])
    edit_counts,        \* len(edits) of every mapping of the path
    mapping_number,     \* index of the current mapping
    mapping,            \* the mapping the loop over the mappings is at
    edits_len,          \* len(edits) of the current mapping
    edit_number,        \* index of the current edit
    ref_sequence,       \* local reference of the current mapping
    index_in_ref,       \* cursor in ref_sequence
    edit,               \* the edit processed last
    may_be_soft_clip,   \* the flag computed for the edit processed last
    matches,
    indels,
    substitutions,
    aligned_length,
    alignment_columns,
    mismatches,
    matches_per_column

\* run_stats, the scan of the alignment stream of one unit (lines 1030-1453).
VARIABLES
    epc,                \* "start", "scan", "written" or "failed"
    failure,            \* what made run_stats raise, "none" if nothing did
    run_no,             \* which execution of run_stats on the unit this is
    stream,             \* the records vg view -aj printed, in order
    pos,                \* number of records this execution has read
    stats_dict,         \* run_stats: stats
    last_alignment,
    last_matches_per_column,
    stats_store,        \* out_store: content under stats_file_key
    store_before,       \* stats_store when this execution started
    first_stats         \* stats of the first execution, once it has ended

\* run_all_alignments and the jobs of one server-list line up to the root
\* recursively_run_samples job (lines 124-199, 202-486, 489-741).
VARIABLES
    serialize_downloads,    \* options.serialize_downloads
    reindex,                \* options.reindex
    has_samples,            \* line -> len(samples_to_run) > 0
    index_exists,           \* line -> out_store.exists(index_key)
    index_dir_id,           \* line -> "none", "read" or "built"
    region_job              \* line -> where the jobs of the line are

planVars == <<options, num_per_call, input_samples, gam, stats, now, pc, seen,
              completed_samples, samples_to_run, pending, ran, leaf, task,
              failed_jobs, report>>

regionVars == <<serialize_downloads, reindex, has_samples, index_exists,
                index_dir_id, region_job>>

schedVars == <<planVars, regionVars>>

metricVars == <<wpc, length, edit_counts, mapping_number, mapping, edits_len,
                edit_number, ref_sequence, index_in_ref, edit,
                may_be_soft_clip, matches, indels, substitutions,
                aligned_length, alignment_columns, mismatches,
                matches_per_column>>

engineVars == <<epc, failure, run_no, stream, pos, stats_dict, last_alignment,
                last_matches_per_column, stats_store, store_before,
                first_stats>>

vars == <<schedVars, metricVars, engineVars>>

(* ------------------------------ helpers -------------------------------- *)
Min(a, b) == IF a < b THEN a ELSE b

Range(s) == {s[i] : i \in 1..Len(s)}

\* Python's s[a:b] for 0 <= a, 0 <= b: both ends are clamped to len(s).
PySlice(s, a, b) ==
    LET lo == Min(a, Len(s))
        hi == Min(b, Len(s))
    IN  IF lo >= hi THEN << >> ELSE SubSeq(s, lo + 1, hi)

RECURSIVE Concat(_)
Concat(ss) == IF ss = << >> THEN << >> ELSE Head(ss) \o Concat(Tail(ss))

AbsentGam == [size |-> None, mtime |-> None]

(* ------------------------ run_region_alignments ------------------------ *)
\* Mutant: a GAM of exactly min_gam_size is too small for the listing loop.
GamTooSmallOrOld_AtLimit(o, gam_size, gam_mtime) ==
    \/ gam_size = None
    \/ gam_size <= o.min_gam_size
    \/ (o.alignments_too_old # None /\ gam_mtime < o.alignments_too_old)

\* The test that makes the stats listing loop "continue" on a bad GAM.
GamTooSmallOrOld(o, gam_size, gam_mtime) ==
    \/ gam_size = None
    \/ gam_size < o.min_gam_size
    \/ (o.alignments_too_old # None /\ gam_mtime < o.alignments_too_old)

\* Mutant: the age of the stats file is never looked at.
StatsTooOld_Never(o, mtime) == FALSE

\* The test that keeps a listed stats file out of completed_samples by age.
StatsTooOld(o, mtime) ==
    o.stats_too_old # None /\ mtime < o.stats_too_old

\* completed_samples after the loop over the stats listing.
CompletedSamples(o, g, st) ==
    {s \in DOMAIN st :
        /\ st[s] # None
        /\ ~GamTooSmallOrOld(o, g[s].size, g[s].mtime)
        /\ ~StatsTooOld(o, st[s])}

\* Mutant: the skip test forgets the overwrite flag.
AlreadyDone_IgnoreOverwrite(o, completed, sample) ==
    (~o.restat) /\ sample \in completed

\* The test that skips a sample instead of appending it to samples_to_run.
AlreadyDone(o, completed, sample) ==
    (~o.overwrite) /\ (~o.restat) /\ sample \in completed

\* samples_to_run after the loop over input_samples.
SamplesToRun(o, completed, samples) ==
    SelectSeq(samples, LAMBDA s : ~AlreadyDone(o, completed, s))

(* ----------------------- recursively_run_samples ----------------------- *)
\* Mutant: the first batch takes one sample too many.
SamplesToRunNow_OneMore(list, n) == PySlice(list, 0, n + 1)

SamplesToRunNow(list, n) == PySlice(list, 0, n)

\* Mutant: the rest starts at the last sample of the first batch.
SamplesToRunLater_FromBatchEnd(list, n) == PySlice(list, n - 1, Len(list))

SamplesToRunLater(list, n) == PySlice(list, n, Len(list))

\* Mutant: the size of the GAM is not tested.
NeedsAlignment_NoSize(o, gam_size, gam_mtime) ==
    \/ o.overwrite
    \/ gam_mtime = None
    \/ (o.alignments_too_old # None /\ gam_mtime < o.alignments_too_old)

\* Mutant: size and age are only tested on a GAM that exists, and a GAM
\* that does not exist passes.
NeedsAlignment_AbsentPasses(o, gam_size, gam_mtime) ==
    \/ o.overwrite
    \/ /\ gam_mtime # None
       /\ \/ (o.alignments_too_old # None /\ gam_mtime < o.alignments_too_old)
          \/ gam_size < o.min_gam_size

\* The condition of the branch that submits run_alignment.
NeedsAlignment(o, gam_size, gam_mtime) ==
    \/ o.overwrite
    \/ gam_mtime = None
    \/ (o.alignments_too_old # None /\ gam_mtime < o.alignments_too_old)
    \/ gam_size < o.min_gam_size

\* Mutant: a missing stats file is not tested for.
NeedsStats_NoMissing(o, stats_mtime) ==
    \/ o.restat
    \/ (o.stats_too_old # None /\ stats_mtime < o.stats_too_old)

\* The condition of the branch that submits the stats-only run_stats.
NeedsStats(o, stats_mtime) ==
    \/ o.restat
    \/ stats_mtime = None
    \/ (o.stats_too_old # None /\ stats_mtime < o.stats_too_old)

\* Mutant: the stats condition is tested before the alignment condition.
LeafKind_StatsFirst(o, g, st, sample) ==
    IF NeedsStats(o, st[sample]) THEN "stats"
    ELSE IF NeedsAlignment(o, g[sample].size, g[sample].mtime) THEN "align"
    ELSE "skip"

\* The branch taken for one sample of samples_to_run_now.
LeafKind(o, g, st, sample) ==
    IF NeedsAlignment(o, g[sample].size, g[sample].mtime) THEN "align"
    ELSE IF NeedsStats(o, st[sample]) THEN "stats"
    ELSE "skip"

\* len(samples_to_run_later) / num_per_call
PartSize(later, n) == Len(later) \div n

\* Mutant: the splitting loop runs two extra iterations instead of one.
NumParts_TwoMore(n) == n + 2

\* The number of iterations of the splitting loop.
NumParts(n) == n + 1

\* Mutant: a short rest is split like a long one.
Parts_AlwaysSplits(later, n) ==
    IF Len(later) = 0 THEN << >>
    ELSE LET part_size == PartSize(later, n)
             all == [k \in 1..NumParts(n) |->
                        PySlice(later, (k - 1) * part_size, k * part_size)]
         IN  SelectSeq(all, LAMBDA part : Len(part) > 0)

\* Mutant: every slice takes the first sample of the next slice too.
Parts_Overlapping(later, n) ==
    IF Len(later) = 0 THEN << >>
    ELSE IF Len(later) < n THEN << later >>
    ELSE LET part_size == PartSize(later, n)
             all == [k \in 1..NumParts(n) |->
                        PySlice(later, (k - 1) * part_size,
                                k * part_size + 1)]
         IN  SelectSeq(all, LAMBDA part : Len(part) > 0)

\* The lists handed to the recursive children, in submission order.
Parts(later, n) ==
    IF Len(later) = 0 THEN << >>
    ELSE IF Len(later) < n THEN << later >>
    ELSE LET part_size == PartSize(later, n)
             all == [k \in 1..NumParts(n) |->
                        PySlice(later, (k - 1) * part_size, k * part_size)]
         IN  SelectSeq(all, LAMBDA part : Len(part) > 0)

(* ------------------------------- Init ---------------------------------- *)
Thresholds == {None, MaxTime}

OptionSets(ow, rs, ri, ato, sto, mgs) ==
    [overwrite : ow, restat : rs, reindex : ri,
     alignments_too_old : ato, stats_too_old : sto, min_gam_size : mgs]

\* Metadata of an alignment artifact written no later than instant t.
GamStates(t) == {AbsentGam} \cup [size : Sizes, mtime : 0..t]

StatsStates(t) == {None} \cup (0..t)

\* last_matches_per_column = None
NoRatio == [num |-> 0, den |-> 0]

\* last_alignment = None
NoAlignment ==
    [name |-> "", is_secondary |-> FALSE, score |-> None, path |-> << >>,
     length |-> 0, mapping_quality |-> None, identity |-> None]

\* The stats dict as run_stats creates it (lines 1108-1133).
NewStats(run_time) ==
    [total_reads |-> 0,
     total_mapped |-> 0,
     total_multimapped |-> 0,
     total_secondary_visible |-> 0,
     total_sufficiently_unique |-> 0,
     mapped_lengths |-> EmptyBag,
     unmapped_lengths |-> EmptyBag,
     aligned_lengths |-> EmptyBag,
     primary_scores |-> EmptyBag,
     primary_mapqs |-> EmptyBag,
     primary_identities |-> EmptyBag,
     primary_mismatches |-> EmptyBag,
     primary_matches_per_column |-> EmptyBag,
     primary_indels |-> EmptyBag,
     primary_substitutions |-> EmptyBag,
     secondary_scores |-> EmptyBag,
     secondary_mapqs |-> EmptyBag,
     secondary_identities |-> EmptyBag,
     secondary_mismatches |-> EmptyBag,
     secondary_matches_per_column |-> EmptyBag,
     secondary_indels |-> EmptyBag,
     secondary_substitutions |-> EmptyBag,
     primary_advantage |-> EmptyBag,
     run_time |-> run_time]

\* No run_stats is scanning a stream.
EngineIdle ==
    /\ epc = "idle"
    /\ failure = "none"
    /\ run_no = 0
    /\ stream = << >>
    /\ pos = 0
    /\ stats_dict = NewStats(None)
    /\ last_alignment = NoAlignment
    /\ last_matches_per_column = NoRatio
    /\ stats_store = << >>
    /\ store_before = << >>
    /\ first_stats = << >>

\* An edit without any key.
NoEdit == [from_length |-> None, to_length |-> None, has_sequence |-> FALSE]

\* The loop over the mappings has not bound `mapping` yet.
NoMapping ==
    [position |-> [node_id |-> None, offset |-> None, is_reverse |-> FALSE],
     is_reverse |-> FALSE]

\* No record is being measured.
MetricsIdle ==
    /\ wpc = "idle"
    /\ length = 0
    /\ edit_counts = << >>
    /\ mapping_number = 0
    /\ mapping = NoMapping
    /\ edits_len = 0
    /\ edit_number = 0
    /\ ref_sequence = << >>
    /\ index_in_ref = 0
    /\ edit = NoEdit
    /\ may_be_soft_clip = FALSE
    /\ matches = 0
    /\ indels = 0
    /\ substitutions = 0
    /\ aligned_length = 0
    /\ alignment_columns = 0
    /\ mismatches = 0
    /\ matches_per_column = [num |-> 0, den |-> 1]

\* No server list is being worked on.
RegionsIdle ==
    /\ serialize_downloads = FALSE
    /\ reindex = FALSE
    /\ has_samples = << >>
    /\ index_exists = << >>
    /\ index_dir_id = << >>
    /\ region_job = << >>

\* No planner and no scheduler is running.
PlanIdle ==
    /\ options \in OptionSets({FALSE}, {FALSE}, {FALSE}, {None}, {None},
                              {MaxSize})
    /\ num_per_call = 1
    /\ input_samples = << >>
    /\ gam = << >>
    /\ stats = << >>
    /\ now = Horizon
    /\ pc = "returned"
    /\ seen = [gam |-> gam, stats |-> stats]
    /\ completed_samples = {}
    /\ samples_to_run = << >>
    /\ pending = {}
    /\ ran = {}
    /\ leaf = << >>
    /\ task = << >>
    /\ failed_jobs = None
    /\ report = "none"

SchedIdle == PlanIdle /\ RegionsIdle

InitRest ==
    /\ MetricsIdle
    /\ EngineIdle
    /\ RegionsIdle
    /\ pc = "plan"
    /\ seen = [gam |-> gam, stats |-> stats]
    /\ completed_samples = {}
    /\ samples_to_run = << >>
    /\ pending = {}
    /\ ran = {}
    /\ leaf = [s \in DOMAIN gam |-> "none"]
    /\ task = [s \in DOMAIN gam |-> "none"]
    /\ failed_jobs = None
    /\ report = "none"

\* Planner family: few samples, every policy and every metadata state.
\* The batch size is the smallest or the largest one, min_gam_size the
\* largest size, so that sizes below and at the limit both occur.
Init ==
    /\ \E n \in 0..MaxPlanSamples : input_samples = [i \in 1..n |-> i]
    /\ num_per_call \in {1, MaxBatch}
    /\ options \in OptionSets(BOOLEAN, BOOLEAN, {FALSE}, Thresholds,
                              Thresholds, {MaxSize})
    /\ now = Horizon - 2
    /\ gam \in [Range(input_samples) -> GamStates(MaxTime)]
    /\ stats \in [Range(input_samples) -> StatsStates(MaxTime)]
    /\ InitRest

\* The metadata profiles the samples of the scheduler family cycle through:
\* never run, aligned without stats, aligned with stats, too small with stats.
ProfileGam(s) ==
    CASE s % 4 = 1 -> AbsentGam
      [] s % 4 = 2 -> [size |-> MaxSize, mtime |-> 0]
      [] s % 4 = 3 -> [size |-> MaxSize, mtime |-> 0]
      [] OTHER -> [size |-> 0, mtime |-> 0]

ProfileStats(s) == IF s % 4 \in {1, 2} THEN None ELSE 0

\* Scheduler family: long lists of samples, no age thresholds.
InitSched ==
    /\ \E n \in 0..MaxSamples : input_samples = [i \in 1..n |-> i]
    /\ num_per_call \in 1..MaxBatch
    /\ options \in OptionSets(BOOLEAN, BOOLEAN, BOOLEAN, {None}, {None},
                              {MaxSize})
    /\ now = Horizon - 1
    /\ gam = [s \in Range(input_samples) |-> ProfileGam(s)]
    /\ stats = [s \in Range(input_samples) |-> ProfileStats(s)]
    /\ InitRest

\* Fair family: so few samples that every leaf task runs before Horizon.
InitFair ==
    /\ \E n \in 0..FairSamples : input_samples = [i \in 1..n |-> i]
    /\ num_per_call \in 1..MaxBatch
    /\ options \in OptionSets(BOOLEAN, BOOLEAN, BOOLEAN, {None}, {None},
                              {MaxSize})
    /\ now = Horizon - 2 * FairSamples
    /\ gam = [s \in Range(input_samples) |-> ProfileGam(s)]
    /\ stats = [s \in Range(input_samples) |-> ProfileStats(s)]
    /\ InitRest

\* Rerun family: a first run without flags and thresholds over a long list
\* of samples in the largest batches; the first sample was never aligned,
\* the others have an alignment and no stats.
InitRerun ==
    /\ \E n \in 0..MaxSamples : input_samples = [i \in 1..n |-> i]
    /\ num_per_call = MaxBatch
    /\ options \in OptionSets({FALSE}, {FALSE}, {FALSE}, {None}, {None},
                              {MaxSize})
    /\ now = MaxTime
    /\ gam = [s \in Range(input_samples) |->
                IF s = 1 THEN AbsentGam
                ELSE [size |-> MaxSize, mtime |-> 0]]
    /\ stats = [s \in Range(input_samples) |-> None]
    /\ InitRest

(* ------------------------------ actions -------------------------------- *)
\* Mutant: planning deletes the alignment artifacts it finds too small or
\* too old.
Plan_Deleting ==
    /\ pc = "plan"
    /\ seen' = [gam |-> gam, stats |-> stats]
    /\ completed_samples' = CompletedSamples(options, gam, stats)
    /\ samples_to_run' =
           SamplesToRun(options, completed_samples', input_samples)
    /\ gam' = [s \in DOMAIN gam |->
                 IF GamTooSmallOrOld(options, gam[s].size, gam[s].mtime)
                 THEN AbsentGam ELSE gam[s]]
    /\ IF Len(samples_to_run') = 0 /\ ~options.reindex
       THEN pc' = "returned" /\ pending' = {}
       ELSE pc' = "queued" /\ pending' = {samples_to_run'}
    /\ UNCHANGED <<metricVars, engineVars, regionVars, failed_jobs, report>>
    /\ UNCHANGED <<options, num_per_call, input_samples, stats, now,
                   ran, leaf, task>>

\* run_region_alignments: build completed_samples and samples_to_run from
\* the store metadata, return if there is nothing to do, else queue the
\* root recursively_run_samples job (once the index is there).
Plan ==
    /\ pc = "plan"
    /\ seen' = [gam |-> gam, stats |-> stats]
    /\ completed_samples' = CompletedSamples(options, gam, stats)
    /\ samples_to_run' =
           SamplesToRun(options, completed_samples', input_samples)
    /\ IF Len(samples_to_run') = 0 /\ ~options.reindex
       THEN pc' = "returned" /\ pending' = {}
       ELSE pc' = "queued" /\ pending' = {samples_to_run'}
    /\ UNCHANGED <<metricVars, engineVars, regionVars, failed_jobs, report>>
    /\ UNCHANGED <<options, num_per_call, input_samples, gam, stats, now,
                   ran, leaf, task>>

\* One recursively_run_samples job: submit a leaf per sample of the first
\* batch and the recursive children for the rest.
RunNode(list) ==
    /\ list \in pending
    /\ LET run_now == SamplesToRunNow(list, num_per_call)
           run_later == SamplesToRunLater(list, num_per_call)
           leaves == [i \in 1..Len(run_now) |->
                        [sample |-> run_now[i],
                         kind |-> LeafKind(options, gam, stats, run_now[i])]]
           parts == Parts(run_later, num_per_call)
       IN  /\ ran' = ran \cup {[list |-> list, run_now |-> run_now,
                                run_later |-> run_later, leaves |-> leaves,
                                parts |-> parts]}
           /\ pending' = (pending \ {list}) \cup Range(parts)
           /\ leaf' = [s \in DOMAIN leaf |->
                         IF s \in Range(run_now)
                         THEN LeafKind(options, gam, stats, s)
                         ELSE leaf[s]]
           /\ task' = [s \in DOMAIN task |->
                         IF s \in Range(run_now)
                         THEN (IF LeafKind(options, gam, stats, s) = "skip"
                               THEN task[s]
                               ELSE LeafKind(options, gam, stats, s))
                         ELSE task[s]]
    /\ UNCHANGED <<metricVars, engineVars, regionVars, failed_jobs, report>>
    /\ UNCHANGED <<options, num_per_call, input_samples, gam, stats, now, pc,
                   seen, completed_samples, samples_to_run>>

\* Mutant: the stats follow-on is added although nothing was uploaded.
RunAlignment_NoUpload(s) ==
    /\ task[s] = "align"
    /\ now < Horizon
    /\ now' = now + 1
    /\ task' = [task EXCEPT ![s] = "stats"]
    /\ UNCHANGED <<metricVars, engineVars, regionVars, failed_jobs, report>>
    /\ UNCHANGED <<options, num_per_call, input_samples, gam, stats, pc, seen,
                   completed_samples, samples_to_run, pending, ran, leaf>>

\* run_alignment, the aligner exits zero: upload the GAM, add the stats
\* follow-on.
RunAlignment(s) ==
    /\ task[s] = "align"
    /\ now < Horizon
    /\ now' = now + 1
    /\ \E sz \in Sizes : gam' = [gam EXCEPT ![s] = [size |-> sz, mtime |-> now']]
    /\ task' = [task EXCEPT ![s] = "stats"]
    /\ UNCHANGED <<metricVars, engineVars, regionVars, failed_jobs, report>>
    /\ UNCHANGED <<options, num_per_call, input_samples, stats, pc, seen,
                   completed_samples, samples_to_run, pending, ran, leaf>>

\* Mutant: the aligner output is uploaded before its exit status is tested.
RunAlignmentFail_AfterUpload(s) ==
    /\ task[s] = "align"
    /\ now < Horizon
    /\ now' = now + 1
    /\ \E sz \in Sizes : gam' = [gam EXCEPT ![s] = [size |-> sz, mtime |-> now']]
    /\ task' = [task EXCEPT ![s] = "align_failed"]
    /\ UNCHANGED <<metricVars, engineVars, regionVars, failed_jobs, report>>
    /\ UNCHANGED <<options, num_per_call, input_samples, stats, pc, seen,
                   completed_samples, samples_to_run, pending, ran, leaf>>

\* run_alignment, the aligner exits non-zero: RuntimeError before the upload.
RunAlignmentFail(s) ==
    /\ task[s] = "align"
    /\ now < Horizon
    /\ now' = now + 1
    /\ task' = [task EXCEPT ![s] = "align_failed"]
    /\ UNCHANGED <<metricVars, engineVars, regionVars, failed_jobs, report>>
    /\ UNCHANGED <<options, num_per_call, input_samples, gam, stats, pc, seen,
                   completed_samples, samples_to_run, pending, ran, leaf>>

\* The scheduling node that submitted the leaf of a sample.
NodeOf(s) == CHOOSE r \in ran : s \in Range(r.run_now)

\* A leaf and everything it submitted has ended successfully.
LeafDone(s) == leaf[s] = "skip" \/ task[s] = "done"

\* The scheduling node of a list and all its successors (children and
\* follow-ons, recursively) have ended successfully.
RECURSIVE SubtreeDone(_)
SubtreeDone(list) ==
    \E r \in ran :
        /\ r.list = list
        /\ \A s \in Range(r.run_now) : LeafDone(s)
        /\ \A i \in 1..Len(r.parts) : SubtreeDone(r.parts[i])

\* All children of a scheduling node (its run_alignment jobs with their
\* follow-ons and its recursive children) have ended successfully.
ChildrenDone(r) ==
    /\ \A s \in Range(r.run_now) : leaf[s] = "align" => LeafDone(s)
    /\ \A i \in 1..Len(r.parts) : SubtreeDone(r.parts[i])

\* Mutant: a follow-on starts as soon as it is added.
StatsMayStart_AtOnce(s) == TRUE

\* When the scheduler may start the queued run_stats of a sample: the stats
\* job of run_alignment is the follow-on of a job without children; the
\* stats-only job is a follow-on of its scheduling node (addFollowOnJobFn)
\* and runs after all the children of that node.
StatsMayStart(s) ==
    IF leaf[s] = "align" THEN TRUE ELSE ChildrenDone(NodeOf(s))

\* Mutant: run_stats also writes the alignment it has read back to its key.
RunStats_TouchesAlignment(s) ==
    /\ task[s] = "stats"
    /\ StatsMayStart(s)
    /\ now < Horizon
    /\ gam[s] # AbsentGam
    /\ now' = now + 1
    /\ stats' = [stats EXCEPT ![s] = now']
    /\ gam' = [gam EXCEPT ![s] = [size |-> gam[s].size, mtime |-> now']]
    /\ task' = [task EXCEPT ![s] = "done"]
    /\ UNCHANGED <<metricVars, engineVars, regionVars, failed_jobs, report>>
    /\ UNCHANGED <<options, num_per_call, input_samples, pc, seen,
                   completed_samples, samples_to_run, pending, ran, leaf>>

\* run_stats to its end: the stats file is written to the store.
RunStats(s) ==
    /\ task[s] = "stats"
    /\ StatsMayStart(s)
    /\ now < Horizon
    /\ gam[s] # AbsentGam
    /\ now' = now + 1
    /\ stats' = [stats EXCEPT ![s] = now']
    /\ task' = [task EXCEPT ![s] = "done"]
    /\ UNCHANGED <<metricVars, engineVars, regionVars, failed_jobs, report>>
    /\ UNCHANGED <<options, num_per_call, input_samples, gam, pc, seen,
                   completed_samples, samples_to_run, pending, ran, leaf>>

\* run_stats raising (format error, vg view dying, missing GAM).
RunStatsFail(s) ==
    /\ task[s] = "stats"
    /\ StatsMayStart(s)
    /\ now < Horizon
    /\ now' = now + 1
    /\ task' = [task EXCEPT ![s] = "stats_failed"]
    /\ UNCHANGED <<metricVars, engineVars, regionVars, failed_jobs, report>>
    /\ UNCHANGED <<options, num_per_call, input_samples, gam, stats, pc, seen,
                   completed_samples, samples_to_run, pending, ran, leaf>>

\* A leaf task of the sample raised.
Failed(s) == task[s] \in {"align_failed", "stats_failed"}

\* A child of the scheduling node, or a successor of a child, raised: the
\* scheduler never runs the follow-ons of a job one of whose children failed.
ChildrenFailed(r) ==
    \/ \E s \in Range(r.run_now) : leaf[s] = "align" /\ Failed(s)
    \/ \E i \in 1..Len(r.parts) : \E s \in Range(r.parts[i]) : Failed(s)

\* The queued stats-only run_stats of the sample can never start.
Blocked(s) ==
    /\ task[s] = "stats"
    /\ leaf[s] = "stats"
    /\ ChildrenFailed(NodeOf(s))

\* Job.Runner.startToil returns: no job is left that the scheduler can run.
ToilReturns ==
    \/ pc = "returned"
    \/ /\ pc = "queued"
       /\ pending = {}
       /\ \A s \in DOMAIN task :
              /\ task[s] # "align"
              /\ task[s] = "stats" => Blocked(s)

\* Mutant: one failed job is tolerated.
Main_ToleratesOne ==
    /\ report = "none"
    /\ ToilReturns
    /\ failed_jobs' = Cardinality({s \in DOMAIN task : Failed(s)})
    /\ report' = IF failed_jobs' > 1 THEN "raised" ELSE "success"
    /\ UNCHANGED <<metricVars, engineVars, regionVars>>
    /\ UNCHANGED <<options, num_per_call, input_samples, gam, stats, now, pc,
                   seen, completed_samples, samples_to_run, pending, ran,
                   leaf, task>>

\* main, after the workflow: failed_jobs is what startToil returned; raise
\* if it is positive, else print "All jobs completed successfully".
Main ==
    /\ report = "none"
    /\ ToilReturns
    /\ failed_jobs' = Cardinality({s \in DOMAIN task : Failed(s)})
    /\ report' = IF failed_jobs' > 0 THEN "raised" ELSE "success"
    /\ UNCHANGED <<metricVars, engineVars, regionVars>>
    /\ UNCHANGED <<options, num_per_call, input_samples, gam, stats, now, pc,
                   seen, completed_samples, samples_to_run, pending, ran,
                   leaf, task>>

Next ==
    \/ Plan
    \/ \E list \in pending : RunNode(list)
    \/ \E s \in DOMAIN task : RunAlignment(s)
    \/ \E s \in DOMAIN task : RunAlignmentFail(s)
    \/ \E s \in DOMAIN task : RunStats(s)
    \/ \E s \in DOMAIN task : RunStatsFail(s)
    \/ Main

Spec == Init /\ [][Next]_vars

SpecSched == InitSched /\ [][Next]_vars

\* The scheduler runs every job that is ready, and main runs once the
\* workflow has returned: no step that stays enabled is postponed forever.
SpecFair == InitFair /\ [][Next]_vars /\ WF_vars(Next)

\* The same scheduling over the long lists of the scheduler family.
SpecSchedFair == InitSched /\ [][Next]_vars /\ WF_vars(Next)

\* A whole first run over the long lists of the rerun family.
SpecRerun == InitRerun /\ [][Next]_vars

(* ------------- run_all_alignments: the jobs of the server list --------- *)
Lines == DOMAIN region_job

\* A server list of one line or more; every line has samples left to run or
\* none, and an index under its index key or none.
InitRegions ==
    /\ PlanIdle
    /\ MetricsIdle
    /\ EngineIdle
    /\ serialize_downloads \in BOOLEAN
    /\ reindex \in BOOLEAN
    /\ \E n \in 1..MaxLines :
        /\ has_samples \in [1..n -> BOOLEAN]
        /\ index_exists \in [1..n -> BOOLEAN]
        /\ index_dir_id = [l \in 1..n |-> "none"]
        /\ region_job = [l \in 1..n |-> "queued"]

\* run_region_alignments of a line has returned without raising.
Downloaded(l) ==
    region_job[l] \notin {"queued", "download", "region_failed"}

\* The job run_region_alignments of line l is a follow-on of: the root job,
\* or with serialize_downloads the run_region_alignments job of the line
\* before it (lines 165, 189-199).  A follow-on starts once its
\* predecessor has returned without raising.
MayStartRegion(l) ==
    IF serialize_downloads /\ l > 1 THEN Downloaded(l - 1) ELSE TRUE

\* A worker takes run_region_alignments of a line.
StartRegion(l) ==
    /\ region_job[l] = "queued"
    /\ MayStartRegion(l)
    /\ region_job' = [region_job EXCEPT ![l] = "download"]
    /\ UNCHANGED <<serialize_downloads, reindex, has_samples, index_exists,
                   index_dir_id>>
    /\ UNCHANGED <<planVars, metricVars, engineVars>>

\* The mutant never returns early: it rebuilds whenever the key is absent.
EndRegion_NoEarlyReturn(l) ==
    /\ region_job[l] = "download"
    /\ IF (~reindex) /\ index_exists[l]
         THEN /\ index_dir_id' = [index_dir_id EXCEPT ![l] = "read"]
              /\ region_job' = [region_job EXCEPT ![l] = "root_queued"]
         ELSE /\ index_dir_id' = index_dir_id
              /\ \E ok \in BOOLEAN :
                    region_job' = [region_job EXCEPT ![l] =
                        IF ok THEN "index_queued" ELSE "region_failed"]
    /\ UNCHANGED <<serialize_downloads, reindex, has_samples, index_exists>>
    /\ UNCHANGED <<planVars, metricVars, engineVars>>

\* run_region_alignments ends (lines 337-486): nothing to do, or the index is
\* read from the store and the root recursively_run_samples is its
\* follow-on, or the graph is downloaded and index_region_and_run_samples is
\* its follow-on; a failing pipeline step of the download raises.
EndRegion(l) ==
    /\ region_job[l] = "download"
    /\ IF ~has_samples[l] /\ ~reindex
         THEN /\ index_dir_id' = index_dir_id
              /\ region_job' = [region_job EXCEPT ![l] = "returned"]
         ELSE IF (~reindex) /\ index_exists[l]
         THEN /\ index_dir_id' = [index_dir_id EXCEPT ![l] = "read"]
              /\ region_job' = [region_job EXCEPT ![l] = "root_queued"]
         ELSE /\ index_dir_id' = index_dir_id
              /\ \E ok \in BOOLEAN :
                    region_job' = [region_job EXCEPT ![l] =
                        IF ok THEN "index_queued" ELSE "region_failed"]
    /\ UNCHANGED <<serialize_downloads, reindex, has_samples, index_exists>>
    /\ UNCHANGED <<planVars, metricVars, engineVars>>

\* A worker takes index_region_and_run_samples, the follow-on of the line's
\* own run_region_alignments (lines 483-485).
StartIndex(l) ==
    /\ region_job[l] = "index_queued"
    /\ region_job' = [region_job EXCEPT ![l] = "indexing"]
    /\ UNCHANGED <<serialize_downloads, reindex, has_samples, index_exists,
                   index_dir_id>>
    /\ UNCHANGED <<planVars, metricVars, engineVars>>

\* index_region_and_run_samples ends (lines 709-741): the index is uploaded
\* under the index key and the root recursively_run_samples is its child,
\* or an indexing step raised before the upload.
EndIndex(l) ==
    /\ region_job[l] = "indexing"
    /\ \E ok \in BOOLEAN :
        IF ok
          THEN /\ index_exists' = [index_exists EXCEPT ![l] = TRUE]
               /\ index_dir_id' = [index_dir_id EXCEPT ![l] = "built"]
               /\ region_job' = [region_job EXCEPT ![l] = "root_queued"]
          ELSE /\ region_job' = [region_job EXCEPT ![l] = "index_failed"]
               /\ UNCHANGED <<index_exists, index_dir_id>>
    /\ UNCHANGED <<serialize_downloads, reindex, has_samples>>
    /\ UNCHANGED <<planVars, metricVars, engineVars>>

\* A worker takes the root recursively_run_samples of the line.
StartSamples(l) ==
    /\ region_job[l] = "root_queued"
    /\ region_job' = [region_job EXCEPT ![l] = "samples"]
    /\ UNCHANGED <<serialize_downloads, reindex, has_samples, index_exists,
                   index_dir_id>>
    /\ UNCHANGED <<planVars, metricVars, engineVars>>

\* The scheduling tree of the line and all its tasks have ended.
EndSamples(l) ==
    /\ region_job[l] = "samples"
    /\ region_job' = [region_job EXCEPT ![l] = "done"]
    /\ UNCHANGED <<serialize_downloads, reindex, has_samples, index_exists,
                   index_dir_id>>
    /\ UNCHANGED <<planVars, metricVars, engineVars>>

NextRegions ==
    \/ \E l \in Lines : StartRegion(l)
    \/ \E l \in Lines : EndRegion(l)
    \/ \E l \in Lines : StartIndex(l)
    \/ \E l \in Lines : EndIndex(l)
    \/ \E l \in Lines : StartSamples(l)
    \/ \E l \in Lines : EndSamples(l)

SpecRegions == InitRegions /\ [][NextRegions]_vars

(* ------------------- run_stats: metrics of one record ------------------ *)
\* dict.get(key, default) of a key whose absence is written None.
Get(value, default) == IF value = None THEN default ELSE value

Max(a, b) == IF a > b THEN a ELSE b

\* The node sequences read from the graph, by node id.
node_sequences == << <<"N", "A", "C">> >>

\* The edits of the alignment JSON: from_length and to_length may be absent
\* (None, the way the JSON writes a zero), and so may the replacement
\* sequence.
FromLens == {None, 1, 2}

ToLens == {None, 2}

\* The lengths of the read sequences.
ReadLens == {1, 2}

Edits == [from_length : FromLens, to_length : ToLens, has_sequence : BOOLEAN]

\* The mappings of the alignment JSON without their edits: the position keys
\* node_id and offset may be absent (None), is_reverse may sit in the
\* position (the schema of the alignment JSON) or in the mapping itself.
\* A position without node_id carries no other key.
Positions ==
    {p \in [node_id : {None} \cup DOMAIN node_sequences, offset : {None, 1},
            is_reverse : BOOLEAN] :
        p.node_id = None => (p.offset = None /\ ~p.is_reverse)}

Mappings == [position : Positions, is_reverse : BOOLEAN]

count_Ns(sequence) == Cardinality({i \in DOMAIN sequence : sequence[i] = "N"})

\* string.maketrans("ACGTN", "TGCAN")
Complement(base) ==
    CASE base = "A" -> "T"
      [] base = "C" -> "G"
      [] base = "G" -> "C"
      [] base = "T" -> "A"
      [] OTHER -> base

reverse_complement(sequence) ==
    [i \in 1..Len(sequence) |-> Complement(sequence[Len(sequence) + 1 - i])]

\* The reference sequence run_stats derives for a mapping (lines 1217-1239).
LocalReference(m) ==
    IF m.position.node_id = None
    THEN << >>
    ELSE LET node == node_sequences[m.position.node_id]
             offset == Get(m.position.offset, 0)
         IN  IF m.is_reverse
             THEN reverse_complement(
                      IF offset # 0
                      THEN PySlice(node, 0, Max(Len(node) - offset, 0))
                      ELSE node)
             ELSE PySlice(node, offset, Len(node))

\* The flag of lines 1255-1258 for edit e_n of mapping m_n.
MayBeSoftClip(m_n, m_len, e_n, e_len) ==
    \/ (e_n = 0 /\ m_n = 0)
    \/ (e_n = e_len - 1 /\ m_n = m_len - 1)

Accumulators ==
    [matches |-> matches, indels |-> indels, substitutions |-> substitutions,
     aligned_length |-> aligned_length,
     alignment_columns |-> alignment_columns]

\* Mutant: an indel at an end of the read is counted like any other.
EditAccumulate_CountsSoftClips(a, e, ref, index, soft) ==
    LET from == Get(e.from_length, 0)
        to == Get(e.to_length, 0)
        reference_N_count == count_Ns(PySlice(ref, index, index + from))
        perfect == ~e.has_sequence /\ to = from
    IN  [alignment_columns |->
             a.alignment_columns + Max(to, from) - reference_N_count,
         aligned_length |->
             a.aligned_length
                 + (IF to = from THEN to - reference_N_count ELSE 0),
         key_error |-> perfect /\ e.from_length = None,
         matches |-> a.matches + (IF perfect THEN from ELSE 0),
         indels |->
             a.indels
                 + (IF to # from /\ reference_N_count = 0
                    THEN 1 ELSE 0),
         substitutions |->
             a.substitutions
                 + (IF to = from /\ e.has_sequence
                    THEN to - reference_N_count ELSE 0)]

\* The body of the loop over the edits (lines 1255-1311) on the accumulators
\* a: key_error is the KeyError of edit["from_length"] (line 1285), raised
\* after alignment_columns and aligned_length were updated.
EditAccumulate(a, e, ref, index, soft) ==
    LET from == Get(e.from_length, 0)
        to == Get(e.to_length, 0)
        reference_N_count == count_Ns(PySlice(ref, index, index + from))
        perfect == ~e.has_sequence /\ to = from
    IN  [alignment_columns |->
             a.alignment_columns + Max(to, from) - reference_N_count,
         aligned_length |->
             a.aligned_length
                 + (IF to = from THEN to - reference_N_count ELSE 0),
         key_error |-> perfect /\ e.from_length = None,
         matches |-> a.matches + (IF perfect THEN from ELSE 0),
         indels |->
             a.indels
                 + (IF ~soft /\ to # from /\ reference_N_count = 0
                    THEN 1 ELSE 0),
         substitutions |->
             a.substitutions
                 + (IF to = from /\ e.has_sequence
                    THEN to - reference_N_count ELSE 0)]

RECURSIVE GCD(_, _)
GCD(a, b) == IF b = 0 THEN a ELSE GCD(b, a % b)

\* float(matches) / alignment_columns if alignment_columns > 0 else 0, as a
\* fraction in lowest terms.
Ratio(m, columns) ==
    IF columns > 0
    THEN [num |-> m \div GCD(m, columns), den |-> columns \div GCD(m, columns)]
    ELSE [num |-> 0, den |-> 1]

RECURSIVE SumSeq(_)
SumSeq(s) == IF s = << >> THEN 0 ELSE Head(s) + SumSeq(Tail(s))

\* The shapes of the paths: the number of edits of each mapping.
Shapes ==
    {s \in UNION {[1..n -> 0..MaxEdits] : n \in 0..MaxMappings} :
        SumSeq(s) <= MaxEdits}

\* len(mappings)
mappings_len == Len(edit_counts)

\* A scored record enters the metric computation: its read length and its
\* path are read, the accumulators are zero.
InitMetrics ==
    /\ SchedIdle
    /\ EngineIdle
    /\ length = 0
    /\ edit_counts \in Shapes
    /\ wpc = IF mappings_len = 0 THEN "end" ELSE "mapping"
    /\ mapping_number = 0
    /\ mapping = NoMapping
    /\ edits_len = 0
    /\ edit_number = 0
    /\ ref_sequence = << >>
    /\ index_in_ref = 0
    /\ edit = NoEdit
    /\ may_be_soft_clip = FALSE
    /\ matches = 0
    /\ indels = 0
    /\ substitutions = 0
    /\ aligned_length = 0
    /\ alignment_columns = 0
    /\ mismatches = 0
    /\ matches_per_column = [num |-> 0, den |-> 1]

\* Where the loops go after the last edit of mapping mapping_number.
AfterMapping == IF mapping_number + 1 < mappings_len THEN "mapping" ELSE "end"

\* The head of the loop over the mappings (lines 1213-1246): the local
\* reference of the next mapping, the cursor back to 0, its edits.
MappingStart ==
    /\ wpc = "mapping"
    /\ \E m \in Mappings :
        LET n == edit_counts[mapping_number + 1]
        IN
          /\ mapping' = m
          /\ ref_sequence' = LocalReference(m)
          /\ index_in_ref' = 0
          /\ edits_len' = n
          /\ edit_number' = 0
          /\ IF n = 0
             THEN wpc' = AfterMapping /\ mapping_number' = mapping_number + 1
             ELSE wpc' = "edit" /\ mapping_number' = mapping_number
    /\ UNCHANGED <<schedVars, engineVars>>
    /\ UNCHANGED <<length, edit_counts, edit, may_be_soft_clip,
                   matches, indels, substitutions, aligned_length,
                   alignment_columns, mismatches, matches_per_column>>

\* One pass of the loop over the edits (lines 1248-1316).
EditStep ==
    /\ wpc = "edit"
    /\ \E e \in Edits :
          LET soft == MayBeSoftClip(mapping_number, mappings_len,
                                    edit_number, edits_len)
              r == EditAccumulate(Accumulators, e, ref_sequence,
                                  index_in_ref, soft)
          IN  /\ edit' = e
              /\ may_be_soft_clip' = soft
              /\ alignment_columns' = r.alignment_columns
              /\ aligned_length' = r.aligned_length
              /\ IF r.key_error
                 THEN /\ wpc' = "error"
                      /\ UNCHANGED <<matches, indels, substitutions,
                                     index_in_ref, edit_number,
                                     mapping_number>>
                 ELSE /\ matches' = r.matches
                      /\ indels' = r.indels
                      /\ substitutions' = r.substitutions
                      /\ index_in_ref' = index_in_ref + Get(e.from_length, 0)
                      /\ edit_number' = edit_number + 1
                      /\ IF edit_number + 1 < edits_len
                         THEN wpc' = "edit" /\ UNCHANGED mapping_number
                         ELSE /\ wpc' = AfterMapping
                              /\ mapping_number' = mapping_number + 1
    /\ UNCHANGED <<schedVars, engineVars>>
    /\ UNCHANGED <<length, edit_counts, mapping, edits_len, ref_sequence,
                   mismatches, matches_per_column>>

\* After the loops (lines 1319-1325).
RecordEnd ==
    /\ wpc = "end"
    /\ length' \in ReadLens
    /\ mismatches' = length' - matches
    /\ matches_per_column' = Ratio(matches, alignment_columns)
    /\ wpc' = "done"
    /\ UNCHANGED <<schedVars, engineVars>>
    /\ UNCHANGED <<edit_counts, mapping_number, mapping, edits_len,
                   edit_number, ref_sequence, index_in_ref, edit,
                   may_be_soft_clip, matches, indels, substitutions,
                   aligned_length, alignment_columns>>

NextMetrics ==
    \/ MappingStart
    \/ EditStep
    \/ RecordEnd

SpecMetrics == InitMetrics /\ [][NextMetrics]_vars


(* --------------------- run_stats: scan of the stream ------------------- *)
\* The paths of the records: one perfect match of two bases, one
\* substitution of two bases, one edit without any key.
PathOf(e) ==
    << [position |-> [node_id |-> 1, offset |-> 1, is_reverse |-> FALSE],
        is_reverse |-> FALSE, edit |-> << e >>] >>

MatchPath ==
    PathOf([from_length |-> 2, to_length |-> 2, has_sequence |-> FALSE])

SubstPath ==
    PathOf([from_length |-> 2, to_length |-> 2, has_sequence |-> TRUE])

EmptyEditPath == PathOf(NoEdit)

\* A path of 20 alignment columns: a match of m bases, then a substitution
\* of the other 20 - m bases.
NearMatchPath(m) ==
    << [position |-> [node_id |-> 1, offset |-> 1, is_reverse |-> FALSE],
        is_reverse |-> FALSE,
        edit |-> << [from_length |-> m, to_length |-> m,
                     has_sequence |-> FALSE],
                    [from_length |-> 20 - m, to_length |-> 20 - m,
                     has_sequence |-> TRUE] >>] >>

\* Paths whose matches per column are exactly 0.95 and exactly 0.85.
Path95 == NearMatchPath(19)

Path85 == NearMatchPath(17)

\* len(alignment["sequence"]) of a record with the path: the bases its
\* edits consume, 2 for a record without a path.
SequenceLength(path) ==
    IF path = << >> THEN 2
    ELSE Max(2, SumSeq([i \in 1..Len(path[1].edit) |->
                           Get(path[1].edit[i].to_length, 0)]))

\* The records of the alignment JSON: a record without a score has no path.
Record(name, secondary, score, path) ==
    [name |-> name, is_secondary |-> secondary, score |-> score,
     path |-> path, length |-> SequenceLength(path),
     mapping_quality |-> None, identity |-> 1]

Records ==
    {Record(n, s, k[1], k[2]) :
        n \in {"A", "B"}, s \in BOOLEAN,
        k \in {<<None, << >> >>, <<50, MatchPath>>, <<30, SubstPath>>}}
    \cup {Record("A", FALSE, 50, EmptyEditPath)}
    \cup {Record("A", FALSE, 50, Path95), Record("A", TRUE, 30, Path85)}

\* The run_time run_stats is handed: None by the scheduling node, the wall
\* time of the aligner by run_alignment.
RunTimes == {None, 1}

\* A stats file of an earlier run.
OldStats == [NewStats(None) EXCEPT !.total_reads = 1]

ZeroAccumulators ==
    [matches |-> 0, indels |-> 0, substitutions |-> 0, aligned_length |-> 0,
     alignment_columns |-> 0, key_error |-> FALSE]

\* The loop over the edits of one mapping (lines 1248-1316).
RECURSIVE EditFold(_, _, _, _, _, _, _)
EditFold(a, edits, e_n, ref, index, m_n, m_len) ==
    IF e_n = Len(edits)
    THEN a
    ELSE LET r == EditAccumulate(a, edits[e_n + 1], ref, index,
                                 MayBeSoftClip(m_n, m_len, e_n, Len(edits)))
         IN  IF r.key_error
             THEN r
             ELSE EditFold(r, edits, e_n + 1, ref,
                           index + Get(edits[e_n + 1].from_length, 0),
                           m_n, m_len)

\* The loop over the mappings (lines 1213-1316).
RECURSIVE MappingFold(_, _, _)
MappingFold(a, mappings, m_n) ==
    IF m_n = Len(mappings)
    THEN a
    ELSE LET r == EditFold(a, mappings[m_n + 1].edit, 0,
                           LocalReference(mappings[m_n + 1]), 0, m_n,
                           Len(mappings))
         IN  IF r.key_error THEN r ELSE MappingFold(r, mappings, m_n + 1)

\* The metrics of a scored record (lines 1178-1325).
RecordMetrics(alignment) ==
    LET a == MappingFold(ZeroAccumulators, alignment.path, 0)
    IN  [key_error |-> a.key_error,
         indels |-> a.indels,
         substitutions |-> a.substitutions,
         aligned_length |-> a.aligned_length,
         mismatches |-> alignment.length - a.matches,
         matches_per_column |-> Ratio(a.matches, a.alignment_columns)]

\* Mutant: a ratio of exactly 0.95 is not enough.
AtLeast95_Strict(ratio) == ratio.den > 0 /\ 100 * ratio.num > 95 * ratio.den

\* ratio >= 0.95 and ratio < 0.85 of a matches-per-column value; None is
\* below every number.
AtLeast95(ratio) == ratio.den > 0 /\ 100 * ratio.num >= 95 * ratio.den

Below85(ratio) == ratio.den = 0 \/ 100 * ratio.num < 85 * ratio.den

Inc(st, field) == [st EXCEPT ![field] = @ + 1]

Count(st, field, key) == [st EXCEPT ![field] = @ (+) SetToBag({key})]

\* Mutant: a secondary after a secondary of the same read is accepted.
FormatError_AfterSecondary(alignment, last) ==
    \/ last = NoAlignment
    \/ last.name # alignment.name

\* The test of lines 1147-1149 on a secondary record.
FormatError(alignment, last) ==
    \/ last = NoAlignment
    \/ last.name # alignment.name
    \/ last.is_secondary

\* Mutant: no secondary is taken for a copy of its primary.
IsShadow_Never(alignment, last) == FALSE

\* The test of line 1160 on a secondary record that passed FormatError.
IsShadow(alignment, last) == alignment.path = last.path

\* Mutant: the pretended secondary is credited twice.
Synthesize_Twice(st, last, last_mpc) ==
    IF last # NoAlignment /\ ~last.is_secondary /\ last.score # None
    THEN LET credited ==
                 Inc(Inc(Count(Count(st, "primary_advantage",
                                     Get(last.score, 0)),
                               "primary_advantage", Get(last.score, 0)),
                         "total_secondary_visible"),
                     "total_secondary_visible")
         IN  IF AtLeast95(last_mpc)
             THEN Inc(credited, "total_sufficiently_unique")
             ELSE credited
    ELSE st

\* The pretended secondary of score 0 for a mapped primary that had none
\* (lines 1379-1400 and again lines 1422-1441).
Synthesize(st, last, last_mpc) ==
    IF last # NoAlignment /\ ~last.is_secondary /\ last.score # None
    THEN LET credited ==
                 Inc(Count(st, "primary_advantage", Get(last.score, 0)),
                     "total_secondary_visible")
         IN  IF AtLeast95(last_mpc)
             THEN Inc(credited, "total_sufficiently_unique")
             ELSE credited
    ELSE st

\* Mutant: the secondary's score minus the primary's.
ScoreAdvantage_Reversed(last, alignment) ==
    Get(alignment.score, 0) - Get(last.score, 0)

\* score_advantage of a secondary over the record before it (lines 1343-1344).
ScoreAdvantage(last, alignment) ==
    Get(last.score, 0) - Get(alignment.score, 0)

\* Mutant: the advantage entry of a secondary comes without its visibility
\* credit.
CountSecondary_NoVisible(st, alignment, m, last, last_mpc) ==
    LET s1 == Inc(st, "total_multimapped")
        s2 == Count(s1, "secondary_scores", alignment.score)
    IN  Count(s2, "primary_advantage", ScoreAdvantage(last, alignment))

\* A scored secondary record (lines 1332-1355).
CountSecondary(st, alignment, m, last, last_mpc) ==
    LET s1 == Inc(st, "total_multimapped")
        s2 == Count(s1, "secondary_scores", alignment.score)
        s3 == Count(s2, "secondary_mismatches", m.mismatches)
        s4 == Count(s3, "secondary_indels", m.indels)
        s5 == Count(s4, "secondary_substitutions", m.substitutions)
        s6 == Count(s5, "secondary_mapqs", Get(alignment.mapping_quality, 0))
        s7 == Count(s6, "secondary_identities", alignment.identity)
        s8 == Count(s7, "secondary_matches_per_column", m.matches_per_column)
        s9 == Count(s8, "primary_advantage", ScoreAdvantage(last, alignment))
        s10 == Inc(s9, "total_secondary_visible")
    IN  IF AtLeast95(last_mpc) /\ Below85(m.matches_per_column)
        THEN Inc(s10, "total_sufficiently_unique")
        ELSE s10

\* Mutant: a mapped primary is not counted as a read.
CountPrimary_NoRead(st, alignment, m, last, last_mpc) ==
    LET s1 == Inc(st, "total_mapped")
        s2 == Count(s1, "primary_scores", alignment.score)
        s9 == Count(s2, "mapped_lengths", alignment.length)
    IN  Synthesize(s9, last, last_mpc)

\* A scored primary record (lines 1360-1400).
CountPrimary(st, alignment, m, last, last_mpc) ==
    LET s1 == Inc(st, "total_mapped")
        s2 == Count(s1, "primary_scores", alignment.score)
        s3 == Count(s2, "primary_mismatches", m.mismatches)
        s4 == Count(s3, "primary_indels", m.indels)
        s5 == Count(s4, "primary_substitutions", m.substitutions)
        s6 == Count(s5, "primary_mapqs", Get(alignment.mapping_quality, 0))
        s7 == Count(s6, "primary_identities", alignment.identity)
        s8 == Count(s7, "primary_matches_per_column", m.matches_per_column)
        s9 == Count(s8, "mapped_lengths", alignment.length)
        s10 == Count(s9, "aligned_lengths", m.aligned_length)
        s11 == Inc(s10, "total_reads")
    IN  Synthesize(s11, last, last_mpc)

\* Mutant: an unmapped primary is counted as mapped too.
CountUnmapped_AlsoMapped(st, alignment) ==
    Inc(Count(Inc(st, "total_reads"), "unmapped_lengths", alignment.length),
        "total_mapped")

\* An unmapped primary record (lines 1406-1409).
CountUnmapped(st, alignment) ==
    Count(Inc(st, "total_reads"), "unmapped_lengths", alignment.length)

\* One pass of the loop over the stream (lines 1140-1419): what it raises,
\* and the stats, last_alignment and last_matches_per_column it leaves.
ProcessRecord(st, last, last_mpc, alignment) ==
    LET untouched(why) ==
            [failure |-> why, stats |-> st, last_alignment |-> last,
             last_matches_per_column |-> last_mpc]
        m == RecordMetrics(alignment)
    IN  IF alignment.is_secondary /\ FormatError(alignment, last)
        THEN untouched("format")
        ELSE IF alignment.is_secondary /\ IsShadow(alignment, last)
        THEN [failure |-> "none", stats |-> st, last_alignment |-> alignment,
              last_matches_per_column |-> NoRatio]
        ELSE IF alignment.score # None
        THEN IF alignment.identity = None \/ m.key_error
             THEN untouched("key")
             ELSE [failure |-> "none",
                   stats |->
                       IF alignment.is_secondary
                       THEN CountSecondary(st, alignment, m, last, last_mpc)
                       ELSE CountPrimary(st, alignment, m, last, last_mpc),
                   last_alignment |-> alignment,
                   last_matches_per_column |-> m.matches_per_column]
        ELSE [failure |-> "none",
              stats |->
                  IF alignment.is_secondary
                  THEN st
                  ELSE CountUnmapped(st, alignment),
              last_alignment |-> alignment,
              last_matches_per_column |-> NoRatio]

\* run_stats is about to run on the unit for the first time; the store may
\* hold the stats of an earlier run.
InitStats ==
    /\ SchedIdle
    /\ MetricsIdle
    /\ epc = "start"
    /\ failure = "none"
    /\ run_no = 1
    /\ stream = << >>
    /\ pos = 0
    /\ stats_dict = NewStats(None)
    /\ last_alignment = NoAlignment
    /\ last_matches_per_column = NoRatio
    /\ stats_store \in {<< >>, <<OldStats>>}
    /\ store_before = stats_store
    /\ first_stats = << >>

\* Mutant: the counters of the previous execution are kept.
Begin_KeepsStats ==
    /\ epc = "start"
    /\ store_before' = stats_store
    /\ \E graph_ok \in BOOLEAN, run_time \in RunTimes :
          IF graph_ok
          THEN /\ epc' = "scan"
               /\ failure' = "none"
               /\ stats_dict' = [stats_dict EXCEPT !.run_time = run_time]
               /\ last_alignment' = NoAlignment
               /\ last_matches_per_column' = NoRatio
               /\ pos' = 0
          ELSE /\ epc' = "failed"
               /\ failure' = "graph"
               /\ UNCHANGED <<stats_dict, last_alignment,
                              last_matches_per_column, pos>>
    /\ UNCHANGED <<schedVars, metricVars, run_no, stream, stats_store,
                   first_stats>>

\* run_stats up to the loop over the stream (lines 1055-1138): the graph is
\* decoded, or vg dies; the alignment is fetched and the counters are made.
Begin ==
    /\ epc = "start"
    /\ store_before' = stats_store
    /\ \E graph_ok \in BOOLEAN, run_time \in RunTimes :
          IF graph_ok
          THEN /\ epc' = "scan"
               /\ failure' = "none"
               /\ stats_dict' = NewStats(run_time)
               /\ last_alignment' = NoAlignment
               /\ last_matches_per_column' = NoRatio
               /\ pos' = 0
          ELSE /\ epc' = "failed"
               /\ failure' = "graph"
               /\ UNCHANGED <<stats_dict, last_alignment,
                              last_matches_per_column, pos>>
    /\ UNCHANGED <<schedVars, metricVars, run_no, stream, stats_store,
                   first_stats>>

\* The records the decoder can print next: any record in the first
\* execution, the record it printed before in the second one.
NextRecords ==
    IF run_no = 1
    THEN IF Len(stream) < MaxStream THEN Records ELSE {}
    ELSE IF pos < Len(stream) THEN {stream[pos + 1]} ELSE {}

\* The loop over the stream reads one record (lines 1140-1419).
ReadRecord ==
    /\ epc = "scan"
    /\ \E alignment \in NextRecords :
          LET r == ProcessRecord(stats_dict, last_alignment,
                                 last_matches_per_column, alignment)
          IN  /\ stream' = IF run_no = 1 THEN Append(stream, alignment)
                                          ELSE stream
              /\ pos' = pos + 1
              /\ failure' = r.failure
              /\ epc' = IF r.failure = "none" THEN "scan" ELSE "failed"
              /\ stats_dict' = r.stats
              /\ last_alignment' = r.last_alignment
              /\ last_matches_per_column' = r.last_matches_per_column
    /\ UNCHANGED <<schedVars, metricVars, run_no, stats_store, store_before,
                   first_stats>>

\* Mutant: the stats are sent to the store before the decoder is waited for.
EndOfStream_WritesFirst ==
    /\ epc = "scan"
    /\ run_no = 1 \/ pos = Len(stream)
    /\ stats_dict' = Synthesize(stats_dict, last_alignment,
                                last_matches_per_column)
    /\ stats_store' = <<stats_dict'>>
    /\ \E status \in {0, 1} :
          IF status = 0
          THEN epc' = "written" /\ failure' = "none"
          ELSE epc' = "failed" /\ failure' = "decoder"
    /\ UNCHANGED <<schedVars, metricVars, run_no, stream, pos, last_alignment,
                   last_matches_per_column, store_before, first_stats>>

\* The stream ends (lines 1421-1453): the last primary is credited, the
\* stats are dumped to the local file, the decoder is waited for, and if it
\* exited with zero the file is written to the store.
EndOfStream ==
    /\ epc = "scan"
    /\ run_no = 1 \/ pos = Len(stream)
    /\ stats_dict' = Synthesize(stats_dict, last_alignment,
                                last_matches_per_column)
    /\ \E status \in {0, 1} :
          IF status = 0
          THEN /\ epc' = "written"
               /\ failure' = "none"
               /\ stats_store' = <<stats_dict'>>
          ELSE /\ epc' = "failed"
               /\ failure' = "decoder"
               /\ UNCHANGED stats_store
    /\ UNCHANGED <<schedVars, metricVars, run_no, stream, pos, last_alignment,
                   last_matches_per_column, store_before, first_stats>>

\* A later run schedules run_stats on the same unit again, over the same
\* alignment file.
Restart ==
    /\ epc \in {"written", "failed"}
    /\ run_no = 1
    /\ run_no' = 2
    /\ epc' = "start"
    /\ first_stats' = IF epc = "written" THEN <<stats_dict>> ELSE << >>
    /\ UNCHANGED <<schedVars, metricVars, failure, stream, pos, stats_dict,
                   last_alignment, last_matches_per_column, stats_store,
                   store_before>>

NextStats ==
    \/ Begin
    \/ ReadRecord
    \/ EndOfStream
    \/ Restart

SpecStats == InitStats /\ [][NextStats]_vars

(* ------------------------- scheduler properties ------------------------ *)
Samples == Range(input_samples)

\* The expansion started by the root job has finished.
ExpansionDone == pc = "queued" /\ pending = {}

\* The leaf tasks (run_alignment or stats-only run_stats) a node submitted.
LeafTasks(r) ==
    {i \in 1..Len(r.leaves) : r.leaves[i].kind \in {"align", "stats"}}

\* C1: for a pending list of N distinct schedulable units, when the
\* recursive expansion has finished exactly N leaf tasks have been
\* submitted: every unit of the list was handed to a leaf task.
C1_EveryUnitGetsALeaf ==
    ExpansionDone =>
        /\ \A s \in Range(samples_to_run) : leaf[s] \in {"align", "stats"}
        /\ Cardinality({s \in Samples : leaf[s] \in {"align", "stats"}})
               = Len(samples_to_run)

\* C2: no scheduling node submits more than num_per_call leaf tasks.
C2_LeafFanoutBounded ==
    \A r \in ran : Cardinality(LeafTasks(r)) <= num_per_call

\* A node that filled its batch and still had samples left over.
C2_Witness ==
    \E r \in ran :
        /\ Cardinality(LeafTasks(r)) = num_per_call
        /\ Len(r.run_later) > 0
        /\ num_per_call > 1

\* C3 as stated: no scheduling node submits more than num_per_call
\* recursive continuation tasks, whatever the length of the remaining list.
C3_AtMostBContinuations ==
    \A r \in ran : Len(r.parts) <= num_per_call

\* C3 as amended: no scheduling node submits more than num_per_call + 1
\* continuation tasks, and no more than num_per_call when the length of the
\* remaining list is a multiple of num_per_call.
C3_AtMostBPlusOneContinuations ==
    \A r \in ran :
        /\ Len(r.parts) <= num_per_call + 1
        /\ (Len(r.run_later) % num_per_call = 0
               => Len(r.parts) <= num_per_call)

\* A node whose remaining list is not a multiple of the batch size and that
\* submitted num_per_call + 1 continuations.
C3_Witness ==
    \E r \in ran :
        /\ Len(r.run_later) % num_per_call # 0
        /\ Len(r.parts) = num_per_call + 1

\* C4: when the remaining list has at least num_per_call samples, the
\* slices given to the continuation tasks are contiguous, disjoint and
\* concatenate, in order, to the remaining list: no unit is left out.
C4_PartsCoverRemainder ==
    \A r \in ran :
        Len(r.run_later) >= num_per_call => Concat(r.parts) = r.run_later

(* -------------------------- planner properties ------------------------- *)
PlanDone == pc # "plan"

InPendingList(s) == s \in Range(samples_to_run)

\* The sample was in the first batch of a scheduling node that ran.
Handled(s) == \E r \in ran : s \in Range(r.run_now)

\* In the snapshot the planner read: the alignment artifact exists.
HadGam(s) == seen.gam[s].size # None /\ seen.gam[s].mtime # None

HadStats(s) == seen.stats[s] # None

\* In the snapshot the planner read: the alignment artifact exists and is
\* smaller than min_gam_size.
HadSmallGam(s) == HadGam(s) /\ seen.gam[s].size < options.min_gam_size

\* In the snapshot: the alignment artifact exists and is older than the
\* alignments_too_old threshold, which is set.
HadOldGam(s) ==
    /\ HadGam(s)
    /\ options.alignments_too_old # None
    /\ seen.gam[s].mtime < options.alignments_too_old

HadOldStats(s) ==
    /\ HadStats(s)
    /\ options.stats_too_old # None
    /\ seen.stats[s] < options.stats_too_old

\* C5: a sample whose alignment artifact exists with a size below
\* min_gam_size is put in the pending list and gets an alignment task,
\* whatever restat, overwrite, the thresholds and its stats artifact.
C5_SmallGamIsRealigned ==
    PlanDone =>
        \A s \in Samples :
            HadSmallGam(s) =>
                /\ InPendingList(s)
                /\ leaf[s] \in {"none", "align"}
                /\ (Handled(s) => leaf[s] = "align")

\* A too-small alignment with a stats artifact, under restat alone, has
\* been given an alignment task.
C5_Witness ==
    \E s \in Samples :
        /\ HadSmallGam(s) /\ HadStats(s)
        /\ options.restat /\ ~options.overwrite
        /\ leaf[s] = "align"

\* C6: with overwrite, every candidate sample that has a stats artifact is
\* put in the pending list and gets an alignment task, never a stats-only
\* task and never a skip, whatever its sizes and times.
C6_OverwriteRealignsSeenSamples ==
    (PlanDone /\ options.overwrite) =>
        \A s \in Samples :
            HadStats(s) =>
                /\ InPendingList(s)
                /\ leaf[s] \notin {"stats", "skip"}
                /\ (Handled(s) => leaf[s] = "align")

\* Under overwrite, a sample with a valid, recent alignment and recent stats
\* has been given an alignment task.
C6_Witness ==
    /\ options.overwrite /\ ~options.restat
    /\ \E s \in Samples :
          /\ HadStats(s) /\ HadGam(s)
          /\ ~HadSmallGam(s) /\ ~HadOldGam(s) /\ ~HadOldStats(s)
          /\ leaf[s] = "align"

\* C7 as stated: with overwrite = false, a candidate sample without a stats
\* artifact gets an alignment task, not a stats-only task, whatever the
\* state of its alignment artifact.
C7_NoStatsMeansAlignment ==
    \A s \in Samples :
        (~options.overwrite /\ ~HadStats(s) /\ Handled(s))
            => leaf[s] = "align"

\* C7 as amended: with overwrite = false, a candidate sample without a
\* stats artifact is always put in the pending list and never skipped; it
\* gets an alignment task when its alignment artifact is absent, too small
\* or too old, and a stats-only task otherwise.
C7_NoStatsMeansScheduled ==
    (PlanDone /\ ~options.overwrite) =>
        \A s \in Samples :
            ~HadStats(s) =>
                /\ InPendingList(s)
                /\ (Handled(s) =>
                       leaf[s] = IF ~HadGam(s) \/ HadSmallGam(s) \/ HadOldGam(s)
                                 THEN "align" ELSE "stats")

\* A sample without stats but with a valid alignment has been given a
\* stats-only task, with restat off.
C7_Witness ==
    /\ ~options.overwrite /\ ~options.restat
    /\ \E s \in Samples :
          /\ ~HadStats(s) /\ HadGam(s) /\ ~HadSmallGam(s) /\ ~HadOldGam(s)
          /\ leaf[s] = "stats"

\* The ordered rule of the planner as the specification states it.
RuleClass(s) ==
    IF \/ options.overwrite
       \/ seen.gam[s].size < options.min_gam_size
       \/ (options.alignments_too_old # None
              /\ seen.gam[s].mtime < options.alignments_too_old)
    THEN "needsAlignment"
    ELSE IF \/ options.restat
            \/ (options.stats_too_old # None
                   /\ seen.stats[s] < options.stats_too_old)
    THEN "needsStatsOnly"
    ELSE "complete"

\* C8: for a sample whose stats and alignment artifacts both exist, the
\* class the two planning stages compute is the ordered rule: left out of
\* the pending list or skipped iff complete, alignment task iff
\* needsAlignment, stats-only task iff needsStatsOnly.
C8_ClassFollowsOrderedRule ==
    PlanDone =>
        \A s \in Samples :
            (HadStats(s) /\ HadGam(s)) =>
                /\ (~InPendingList(s) => RuleClass(s) = "complete")
                /\ (Handled(s) =>
                       RuleClass(s) =
                           CASE leaf[s] = "align" -> "needsAlignment"
                             [] leaf[s] = "stats" -> "needsStatsOnly"
                             [] OTHER -> "complete")

\* Under restat alone, a sample with a valid, recent alignment and recent
\* stats has been given a stats-only task: restat did not realign it.
C8_Witness ==
    /\ options.restat /\ ~options.overwrite
    /\ options.alignments_too_old # None /\ options.stats_too_old # None
    /\ \E s \in Samples :
          /\ HadStats(s) /\ HadGam(s)
          /\ ~HadSmallGam(s) /\ ~HadOldGam(s) /\ ~HadOldStats(s)
          /\ leaf[s] = "stats"

\* C9: a sample whose alignment artifact metadata is absent is never left
\* out as complete and never given a stats-only task: it is in the pending
\* list and gets an alignment task, under every policy.
C9_AbsentGamIsAligned ==
    PlanDone =>
        \A s \in Samples :
            ~HadGam(s) =>
                /\ InPendingList(s)
                /\ leaf[s] \notin {"stats", "skip"}
                /\ (Handled(s) => leaf[s] = "align")

\* A sample with stats but no alignment, under a policy with
\* alignments_too_old set and no overwrite, has been given an alignment task.
C9_Witness ==
    /\ ~options.overwrite /\ ~options.restat
    /\ options.alignments_too_old # None
    /\ \E s \in Samples :
          /\ ~HadGam(s) /\ HadStats(s)
          /\ leaf[s] = "align"

\* The number of times a sample appears in the pending list.
TimesPending(s) ==
    Cardinality({i \in 1..Len(samples_to_run) : samples_to_run[i] = s})

\* The class of a sample on the snapshot the planner read.
SnapshotKind(s) == LeafKind(options, seen.gam, seen.stats, s)

\* Every sample is in exactly one class, and the class a scheduling node
\* gives it is the class of the planning snapshot.
C10_OneClass ==
    PlanDone =>
        \A s \in Samples :
            /\ TimesPending(s) <= 1
            /\ (TimesPending(s) = 0 <=> AlreadyDone(options, completed_samples, s))
            /\ (Handled(s) => TimesPending(s) = 1 /\ leaf[s] = SnapshotKind(s))

\* C10: planning is pure: the steps that classify (run_region_alignments
\* and every scheduling node) leave the artifact store as it is, and the
\* classification is a partition that depends on the snapshot alone.
C10_PlanningIsPure ==
    /\ []C10_OneClass
    /\ [][(pc' # pc \/ ran' # ran) => (gam' = gam /\ stats' = stats)]_vars

\* The expansion finished with several scheduling nodes, a leaf task had
\* already changed the store, and one sample was left out as complete.
C10_Witness ==
    /\ ExpansionDone
    /\ Cardinality(ran) >= 2
    /\ (gam # seen.gam \/ stats # seen.stats)
    /\ \E s \in Samples : TimesPending(s) = 0

(* ------------------------- task graph properties ----------------------- *)
\* C19: the only run-after dependency that constrains a leaf task is
\* alignment task -> stats follow-up of the same unit: a stats-only leaf
\* that has been submitted can start without waiting for an alignment
\* task, a continuation task or a leaf of another unit.
C19_StatsOnlyLeafWaitsForNothing ==
    \A s \in Samples :
        (leaf[s] = "stats" /\ task[s] = "stats") => StatsMayStart(s)

\* The alignment key of the unit has been written since planning.
Uploaded(s) == gam[s] # AbsentGam /\ gam[s].mtime > seen.gam[s].mtime

\* The stats task of a unit has started (run_stats runs to its end or raises).
StatsStarted(s) == task[s] \in {"done", "stats_failed"}

\* C20: for a unit scheduled as an alignment task, the stats task is
\* submitted only after the alignment artifact was written under the
\* unit's key, it starts only after the alignment task has ended, and it
\* never reads the key before that write.
C20_StatsFollowsUpload ==
    /\ [](\A s \in Samples :
            (leaf[s] = "align" /\ (task[s] = "stats" \/ StatsStarted(s)))
                => Uploaded(s))
    /\ [][\A s \in Samples :
            /\ (leaf[s] = "align" /\ task[s] # "stats" /\ task'[s] = "stats")
                  => (task[s] = "align" /\ gam'[s].mtime = now'
                         /\ gam[s].mtime < now')
            /\ (leaf[s] = "align" /\ ~StatsStarted(s) /\ StatsStarted(s)')
                  => (task[s] = "stats" /\ Uploaded(s) /\ gam'[s] = gam[s])
         ]_vars

\* An alignment task wrote its artifact and its stats follow-up ran to its
\* end.
C20_Witness ==
    \E s \in Samples :
        leaf[s] = "align" /\ task[s] = "done" /\ stats[s] > gam[s].mtime

\* Some leaf task has raised.
SomeLeafFailed == \E f \in DOMAIN task : Failed(f)

\* The expansion is over and every leaf task that was submitted has ended,
\* with or without an error of its own.
AllLeavesEnded ==
    /\ pending = {}
    /\ \A s \in DOMAIN task :
          leaf[s] \in {"align", "stats"}
              => task[s] \in {"done", "align_failed", "stats_failed"}

\* C21: failures are isolated per unit: once the leaf task of one unit has
\* raised (the aligner exits non-zero, or its stats raise), the leaf tasks
\* of all other units (alignment leaves, stats-only leaves, leaves below
\* every continuation) are still submitted and run to their end.
C21_FailuresIsolated == SomeLeafFailed ~> AllLeavesEnded

\* C22: the run reports success (prints the success message and returns
\* without raising) exactly when the number of failed jobs the scheduler
\* returned is zero; with one or more failed jobs main raises and the
\* success message is never printed.
C22_SuccessIffNoFailedJob ==
    /\ [](report # "none" =>
            /\ failed_jobs = Cardinality({s \in DOMAIN task : Failed(s)})
            /\ (report = "success" <=> failed_jobs = 0)
            /\ (report = "raised" <=> failed_jobs > 0))
    /\ [][report # "none" => report' = report]_vars

\* main raised after a workflow in which one leaf task failed and another
\* one wrote its stats.
C22_Witness ==
    /\ report = "raised"
    /\ failed_jobs = 1
    /\ \E s \in DOMAIN task : task[s] = "done"

\* The class of a sample on the store metadata of this state: alignment
\* when overwriting or when the alignment artifact is absent, too small or
\* too old; else stats-only when restating or when the stats artifact is
\* absent or too old; else complete.
ClassNow(s) ==
    IF \/ options.overwrite
       \/ gam[s] = AbsentGam
       \/ gam[s].size < options.min_gam_size
       \/ (options.alignments_too_old # None
              /\ gam[s].mtime < options.alignments_too_old)
    THEN "needsAlignment"
    ELSE IF \/ options.restat
            \/ stats[s] = None
            \/ (options.stats_too_old # None
                   /\ stats[s] < options.stats_too_old)
    THEN "needsStatsOnly"
    ELSE "complete"

\* The leaf tasks of one kind submitted for a sample, by all nodes that ran.
TasksOf(s, kind) ==
    UNION {{<<r.list, i>> : i \in {j \in 1..Len(r.leaves) :
                                      /\ r.leaves[j].sample = s
                                      /\ r.leaves[j].kind = kind}} : r \in ran}

\* C23: the leaf submitted for a unit matches its class at scheduling time:
\* a needsAlignment unit gets exactly one alignment task and no direct
\* stats-only task, a needsStatsOnly unit gets exactly one stats-only task
\* and no alignment task, a complete unit gets no task; no task is added
\* for the unit later, and a unit no node scheduled has no task.
C23_LeafMatchesClass ==
    /\ [][\A s \in Samples :
            (~Handled(s) /\ Handled(s)') =>
                /\ Cardinality(TasksOf(s, "align")') =
                       (IF ClassNow(s) = "needsAlignment" THEN 1 ELSE 0)
                /\ Cardinality(TasksOf(s, "stats")') =
                       (IF ClassNow(s) = "needsStatsOnly" THEN 1 ELSE 0)
                /\ task'[s] = CASE ClassNow(s) = "needsAlignment" -> "align"
                                [] ClassNow(s) = "needsStatsOnly" -> "stats"
                                [] OTHER -> "none"
         ]_vars
    /\ [][\A s \in Samples :
            Handled(s) =>
                /\ TasksOf(s, "align")' = TasksOf(s, "align")
                /\ TasksOf(s, "stats")' = TasksOf(s, "stats")
         ]_vars
    /\ [](\A s \in Samples :
            ~Handled(s) =>
                TasksOf(s, "align") = {} /\ TasksOf(s, "stats") = {})

\* One node submitted an alignment task and a stats-only task, and a
\* complete sample was left without a task.
C23_Witness ==
    /\ ExpansionDone
    /\ \E r \in ran : \E a, b \in Range(r.run_now) :
          /\ Cardinality(TasksOf(a, "align")) = 1 /\ TasksOf(a, "stats") = {}
          /\ Cardinality(TasksOf(b, "stats")) = 1 /\ TasksOf(b, "align") = {}
    /\ \E c \in Samples :
          /\ ClassNow(c) = "complete" /\ task[c] = "none"
          /\ TasksOf(c, "align") = {} /\ TasksOf(c, "stats") = {}

\* C24: the recursive expansion terminates for every finite pending list
\* and batch size of at least 1: each continuation receives a strictly
\* shorter list than the node that submitted it, a node with at most
\* num_per_call units submits no continuation, and under fair execution of
\* the submitted tasks no scheduling node is left to run in the end.
C24_ExpansionTerminates ==
    /\ [](\A r \in ran :
            /\ \A i \in 1..Len(r.parts) : Len(r.parts[i]) < Len(r.list)
            /\ (Len(r.list) <= num_per_call => r.parts = << >>))
    /\ <>[](pc # "plan" /\ pending = {})

\* The expansion ended after a continuation submitted a continuation.
C24_Witness ==
    /\ ExpansionDone
    /\ \E r1, r2 \in ran :
          /\ r2.list \in Range(r1.parts)
          /\ r2.parts # << >>

\* C25: when the remainder is non-empty and shorter than num_per_call,
\* exactly one continuation is submitted and it carries the whole
\* remainder in order; when the remainder is empty none is submitted.
C25_ShortRemainderOneContinuation ==
    \A r \in ran :
        /\ r.run_later = SubSeq(r.list, Len(r.run_now) + 1, Len(r.list))
        /\ (Len(r.run_later) > 0 /\ Len(r.run_later) < num_per_call)
               => r.parts = << r.run_later >>
        /\ Len(r.run_later) = 0 => r.parts = << >>

\* A node had a remainder of two or more samples, fewer than num_per_call,
\* and another node had none.
C25_Witness ==
    /\ \E r \in ran :
          /\ Len(r.run_later) >= 2
          /\ Len(r.run_later) < num_per_call
          /\ r.parts = << r.run_later >>
    /\ \E r \in ran : Len(r.list) > 0 /\ Len(r.run_later) = 0

\* The lists of all scheduling nodes, run or waiting to run.
NodeLists == {r.list : r \in ran} \cup pending

\* The depth of the scheduling node of a list in the tree of nodes.
RECURSIVE DepthOf(_)
DepthOf(list) ==
    IF \A r \in ran : list \notin Range(r.parts) THEN 0
    ELSE 1 + DepthOf((CHOOSE r \in ran : list \in Range(r.parts)).list)

\* C26: no unit is handed to more than one leaf task and no unit is in the
\* lists of two different scheduling nodes at the same depth: the first
\* batch and all continuation slices of a node are pairwise disjoint.
C26_SlicesDisjoint ==
    /\ \A r \in ran :
          /\ \A i \in 1..Len(r.parts) :
                Range(r.run_now) \cap Range(r.parts[i]) = {}
          /\ \A i, j \in 1..Len(r.parts) :
                i # j => Range(r.parts[i]) \cap Range(r.parts[j]) = {}
    /\ \A s \in Samples :
          Cardinality(TasksOf(s, "align") \cup TasksOf(s, "stats")) <= 1
    /\ \A l1, l2 \in NodeLists :
          (l1 # l2 /\ DepthOf(l1) = DepthOf(l2))
              => Range(l1) \cap Range(l2) = {}

\* The expansion ended with two nodes at depth 2 below a node that gave a
\* first batch of several samples and several slices.
C26_Witness ==
    /\ ExpansionDone
    /\ \E l1, l2 \in NodeLists : l1 # l2 /\ DepthOf(l1) = 2 /\ DepthOf(l2) = 2
    /\ \E r \in ran : Len(r.run_now) > 1 /\ Len(r.parts) > 1

\* The store metadata of the sample is what the planner read.
MetadataUnchanged(s) == gam[s] = seen.gam[s] /\ stats[s] = seen.stats[s]

\* C27: the two planning stages agree: as long as the store metadata of a
\* sample is what run_region_alignments read, a sample of samples_to_run
\* is classified by the scheduling node as needing alignment or needing
\* stats only, so that the 'SKIPPING sample' branch is never taken.
C27_StagesAgree ==
    /\ PlanDone =>
          \A s \in Range(samples_to_run) :
              MetadataUnchanged(s) =>
                  LeafKind(options, gam, stats, s) \in {"align", "stats"}
    /\ \A s \in Samples : leaf[s] # "skip"

\* With both thresholds set and no overwrite or restat, a sample with a
\* valid alignment and old stats was put in samples_to_run and its node
\* gave it a stats-only task, on unchanged metadata.
C27_Witness ==
    /\ ~options.overwrite /\ ~options.restat
    /\ options.alignments_too_old # None /\ options.stats_too_old # None
    /\ \E s \in Range(samples_to_run) :
          /\ HadOldStats(s) /\ ~HadSmallGam(s) /\ ~HadOldGam(s)
          /\ MetadataUnchanged(s)
          /\ leaf[s] = "stats" /\ task[s] = "stats"

\* C31: if the aligner exits non-zero in run_alignment, the task fails
\* before any store write: the alignment key and the stats key of the unit
\* (and the rest of the store) keep their contents in the failing step and
\* ever after, and no stats follow-up is submitted for the unit.
C31_AlignerFailureWritesNothing ==
    /\ [][\A s \in Samples :
            (task[s] = "align" /\ task'[s] = "align_failed") =>
                (gam' = gam /\ stats' = stats)
         ]_vars
    /\ [][\A s \in Samples :
            task[s] = "align_failed" =>
                /\ task'[s] = "align_failed"
                /\ gam'[s] = gam[s]
                /\ stats'[s] = stats[s]
         ]_vars

\* The realignment of a sample that had an alignment artifact failed, the
\* old artifact is still there, and main has seen the failed job.
C31_Witness ==
    /\ report = "raised"
    /\ \E s \in Samples :
          /\ task[s] = "align_failed"
          /\ seen.gam[s] # AbsentGam
          /\ gam[s] = seen.gam[s]
          /\ stats[s] = seen.stats[s]

(* ---------------------- per-record metric properties ------------------- *)
\* from_length and to_length of an edit, 0 when the key is absent.
RuleFrom(e) == IF e.from_length = None THEN 0 ELSE e.from_length

RuleTo(e) == IF e.to_length = None THEN 0 ELSE e.to_length

\* The number of N among the from_length reference bases at the cursor.
RuleRefNCount(e) ==
    Cardinality({i \in (index_in_ref + 1)..(index_in_ref + RuleFrom(e)) :
                    i <= Len(ref_sequence) /\ ref_sequence[i] = "N"})

\* The edit at the cursor is the first edit of the first mapping or the last
\* edit of the last mapping.
AtEdge ==
    \/ (mapping_number = 0 /\ edit_number = 0)
    \/ (mapping_number = mappings_len - 1 /\ edit_number = edits_len - 1)

\* C17: the per-record metrics of every scored record follow the reference
\* rules: every edit is processed without error and adds
\* max(from, to) - refNCount to alignment_columns, to - refNCount to
\* aligned_length when from = to, from to matches when from = to without a
\* replacement sequence, to - refNCount to substitutions when from = to with
\* one, and from to the cursor, which restarts at 0 for each mapping; then
\* mismatches = sequence length - matches and matches_per_column =
\* matches / alignment_columns, or 0 when alignment_columns = 0.
C17_MetricsFollowRules ==
    /\ [][wpc = "edit" =>
            LET from == RuleFrom(edit')
                to == RuleTo(edit')
                n == RuleRefNCount(edit')
            IN  /\ wpc' # "error"
                /\ alignment_columns' = alignment_columns + Max(from, to) - n
                /\ aligned_length' =
                       aligned_length + (IF from = to THEN to - n ELSE 0)
                /\ matches' =
                       matches + (IF from = to /\ ~edit'.has_sequence
                                  THEN from ELSE 0)
                /\ substitutions' =
                       substitutions + (IF from = to /\ edit'.has_sequence
                                        THEN to - n ELSE 0)
                /\ index_in_ref' = index_in_ref + from
         ]_vars
    /\ [][wpc = "mapping" => index_in_ref' = 0]_vars
    /\ [][wpc = "end" =>
            /\ mismatches' = length' - matches
            /\ IF alignment_columns = 0
               THEN matches_per_column' = [num |-> 0, den |-> 1]
               ELSE matches_per_column'.num * alignment_columns
                        = matches * matches_per_column'.den
         ]_vars

\* C18: an edit with from_length # to_length is counted in indels iff it is
\* neither the first edit of the first mapping nor the last edit of the
\* last mapping and its reference span holds no N; counted or not, it adds
\* max(from, to) - refNCount to alignment_columns.
C18_IndelCounting ==
    [][(wpc = "edit" /\ RuleFrom(edit') # RuleTo(edit')) =>
            /\ indels' = indels + (IF ~AtEdge /\ RuleRefNCount(edit') = 0
                                   THEN 1 ELSE 0)
            /\ alignment_columns' =
                   alignment_columns
                       + Max(RuleFrom(edit'), RuleTo(edit'))
                       - RuleRefNCount(edit')
      ]_vars

\* A path of three edits: an indel inside the path was counted, and the
\* trailing insertion (from = 0, to = 2) that ends the path was not, though
\* its two columns were.
C18_Witness ==
    /\ wpc = "end"
    /\ SumSeq(edit_counts) = 3
    /\ edit = [from_length |-> None, to_length |-> 2, has_sequence |-> TRUE]
    /\ may_be_soft_clip
    /\ indels = 1
    /\ alignment_columns >= 2

\* The local reference of a mapping as the alignment schema gives it, with
\* the strand read from position.is_reverse.
RuleLocalReference(m) ==
    IF m.position.node_id = None
    THEN << >>
    ELSE LET node == node_sequences[m.position.node_id]
             offset == IF m.position.offset = None THEN 0
                       ELSE m.position.offset
         IN  IF m.position.is_reverse
             THEN reverse_complement(SubSeq(node, 1, Len(node) - offset))
             ELSE SubSeq(node, offset + 1, Len(node))

\* C28: for a mapping to a node whose position carries is_reverse = true,
\* the local reference is the reverse complement of the node sequence
\* with its last `offset` bases removed (the whole sequence when offset is
\* 0); with is_reverse false or missing it is the node sequence from index
\* offset on; without node_id it is empty.
C28_LocalReferenceByPositionStrand ==
    [][wpc = "mapping" => ref_sequence' = RuleLocalReference(mapping')]_vars

\* C40: for every scored record whose edits all lie inside their local
\* reference and whose to_lengths sum to the read length, the per-record
\* values stay in range: alignment_columns >= 0, 0 <= matches <=
\* alignment_columns so that matches_per_column lies in [0, 1], and
\* 0 <= mismatches <= sequence length, also when perfect-match edits cover
\* reference N bases.  Stated on the records of one mapping with one edit,
\* for which the final state shows the whole record.
C40_MetricsInRange ==
    (/\ wpc = "done"
     /\ edit_counts = <<1>>
     /\ index_in_ref <= Len(ref_sequence)
     /\ Get(edit.to_length, 0) = length) =>
        /\ alignment_columns >= 0
        /\ 0 <= matches
        /\ matches <= alignment_columns
        /\ 0 <= matches_per_column.num
        /\ matches_per_column.num <= matches_per_column.den
        /\ 0 <= mismatches
        /\ mismatches <= length

(* ------------------------ stream scan properties ----------------------- *)
\* The step reads one record of the stream.
ReadStep == epc = "scan" /\ pos' = pos + 1

\* The step is the end of the stream.
EndStep == epc = "scan" /\ pos' = pos /\ epc' \in {"written", "failed"}

MappedPrimary(r) == ~r.is_secondary /\ r.score # None

\* Record i of the stream is a secondary with the path of the primary of
\* the same read right before it.
ShadowAt(i) ==
    /\ i > 1
    /\ stream[i].is_secondary
    /\ ~stream[i - 1].is_secondary
    /\ stream[i - 1].name = stream[i].name
    /\ stream[i - 1].path = stream[i].path

\* Record i of the stream is a scored secondary with another path than the
\* mapped primary of the same read right before it.
PairAt(i) ==
    /\ i > 1
    /\ stream[i].is_secondary
    /\ stream[i].score # None
    /\ MappedPrimary(stream[i - 1])
    /\ stream[i - 1].name = stream[i].name
    /\ stream[i - 1].path # stream[i].path

PrimaryA50 == Record("A", FALSE, 50, MatchPath)

\* C11: on a secondary record run_stats raises the format error exactly
\* when there is no record before it, or the record before it has another
\* read name, or the record before it is secondary.
C11_FormatErrorExactly ==
    [][(ReadStep /\ stream'[pos'].is_secondary) =>
          ((failure' = "format") <=>
               (\/ pos = 0
                \/ stream[pos].name # stream'[pos'].name
                \/ stream[pos].is_secondary))
      ]_vars

\* A primary, its shadow secondary, and a second secondary of the same read:
\* the scan aborted on the third record.
C11_Witness ==
    /\ epc = "failed"
    /\ failure = "format"
    /\ pos = 3
    /\ stream[1] = PrimaryA50
    /\ ShadowAt(2)
    /\ stream[3].is_secondary
    /\ stream[3].name = "A"

\* C12: the stats key is written only at the end of a stream processed
\* without error whose decoder exited with zero, with the final stats; in
\* every failed execution the store holds what it held when the execution
\* started.
C12_WriteAfterComplete ==
    /\ [](epc = "failed" => stats_store = store_before)
    /\ [](epc = "written" =>
             (failure = "none" /\ pos = Len(stream)
                 /\ stats_store = <<stats_dict>>))
    /\ [][stats_store' # stats_store =>
             (EndStep /\ epc' = "written" /\ stats_store' = <<stats_dict'>>)
         ]_vars

\* A format error at the second record of a recomputation: the stats of
\* the earlier run are still in the store.
C12_Witness ==
    /\ epc = "failed"
    /\ failure = "format"
    /\ pos = 2
    /\ stats_store = <<OldStats>>

\* C13: a shadow secondary changes no counter and no histogram, it only
\* becomes the pending record; whatever comes next, its primary gets no
\* synthesized advantage entry.
C13_ShadowLeavesStats ==
    /\ [][(ReadStep /\ ShadowAt(pos)') =>
             /\ failure' = "none"
             /\ stats_dict' = stats_dict
             /\ last_alignment' = stream'[pos']
         ]_vars
    /\ [][(epc = "scan" /\ ShadowAt(pos)) =>
             /\ stats_dict'.primary_advantage = stats_dict.primary_advantage
             /\ stats_dict'.total_secondary_visible
                    = stats_dict.total_secondary_visible
         ]_vars

\* The stream [primary, shadow secondary] was scanned to its end: one read,
\* no advantage entry.
C13_Witness ==
    /\ epc = "written"
    /\ stream = <<PrimaryA50, Record("A", TRUE, 50, MatchPath)>>
    /\ stats_dict.total_mapped = 1
    /\ stats_dict.primary_advantage = EmptyBag
    /\ stats_dict.total_secondary_visible = 0
    /\ stats_dict.secondary_scores = EmptyBag

\* C14: a scored secondary with another path right after the mapped
\* primary of its read adds one advantage entry at primary score minus
\* secondary score, 1 to total_multimapped and 1 to total_secondary_visible
\* and nothing to total_mapped and total_reads, which the primary raised by
\* 1 each; no advantage entry is added for that primary afterwards.
C14_PairAdvantage ==
    /\ [][(ReadStep /\ PairAt(pos)' /\ failure' = "none") =>
             /\ stats_dict'.primary_advantage =
                    stats_dict.primary_advantage
                        (+) SetToBag({stream[pos].score - stream'[pos'].score})
             /\ stats_dict'.total_multimapped
                    = stats_dict.total_multimapped + 1
             /\ stats_dict'.total_secondary_visible
                    = stats_dict.total_secondary_visible + 1
             /\ stats_dict'.total_mapped = stats_dict.total_mapped
             /\ stats_dict'.total_reads = stats_dict.total_reads
         ]_vars
    /\ [][(ReadStep /\ MappedPrimary(stream'[pos']) /\ failure' = "none") =>
             /\ stats_dict'.total_mapped = stats_dict.total_mapped + 1
             /\ stats_dict'.total_reads = stats_dict.total_reads + 1
         ]_vars
    /\ [][(epc = "scan" /\ PairAt(pos)) =>
             stats_dict'.primary_advantage = stats_dict.primary_advantage
         ]_vars
    /\ []((epc = "written"
              /\ stream = <<PrimaryA50, Record("A", TRUE, 30, SubstPath)>>) =>
             /\ stats_dict.primary_advantage = SetToBag({20})
             /\ stats_dict.total_secondary_visible = 1
             /\ stats_dict.total_mapped = 1
             /\ stats_dict.total_multimapped = 1)

\* The stream [primary 50, secondary 30] was scanned to its end.
C14_Witness ==
    /\ epc = "written"
    /\ stream = <<PrimaryA50, Record("A", TRUE, 30, SubstPath)>>
    /\ stats_dict.primary_advantage = SetToBag({20})
    /\ stats_dict.total_reads = 1

\* C15: a mapped primary with score p that ends the stream or is followed
\* by another mapped primary is credited one synthesized entry in that
\* step: primary_advantage[p] and total_secondary_visible grow by 1,
\* total_sufficiently_unique grows by 1 iff its matches per column are at
\* least 0.95; no step adds more than one advantage entry.
C15_SynthesizedOnce ==
    /\ [][(/\ epc = "scan"
           /\ pos > 0
           /\ MappedPrimary(stream[pos])
           /\ \/ EndStep
              \/ (ReadStep /\ MappedPrimary(stream'[pos'])
                     /\ failure' = "none")) =>
             /\ stats_dict'.primary_advantage =
                    stats_dict.primary_advantage
                        (+) SetToBag({stream[pos].score})
             /\ stats_dict'.total_secondary_visible
                    = stats_dict.total_secondary_visible + 1
             /\ stats_dict'.total_sufficiently_unique =
                    stats_dict.total_sufficiently_unique
                        + (IF AtLeast95(RecordMetrics(stream[pos])
                                            .matches_per_column)
                           THEN 1 ELSE 0)
         ]_vars
    /\ [][epc = "scan" =>
             BagCardinality(stats_dict'.primary_advantage)
                 <= BagCardinality(stats_dict.primary_advantage) + 1
         ]_vars

\* Two mapped primaries in a row, the second one ending the stream: one
\* entry each, only the perfect match counts as sufficiently unique.
C15_Witness ==
    /\ epc = "written"
    /\ stream = <<PrimaryA50, Record("B", FALSE, 30, SubstPath)>>
    /\ stats_dict.primary_advantage = SetToBag({50, 30})
    /\ stats_dict.total_secondary_visible = 2
    /\ stats_dict.total_sufficiently_unique = 1

\* Both executions of run_stats on the unit wrote their stats.
BothWritten == run_no = 2 /\ epc = "written" /\ first_stats # << >>

\* The counters and histograms of a stats dict.
Counters(st) == [st EXCEPT !.run_time = None]

ScoredSecondaryAt(i) ==
    /\ i > 1
    /\ stream[i].is_secondary
    /\ stream[i].score # None
    /\ ~stream[i - 1].is_secondary
    /\ stream[i - 1].name = stream[i].name
    /\ stream[i - 1].path # stream[i].path

\* matches / columns of a scored record is at least pct percent.
RatioAtLeast(r, pct) ==
    LET q == RecordMetrics(r).matches_per_column
    IN  100 * q.num >= pct * q.den

PrimaryA95 == Record("A", FALSE, 50, Path95)

UnmappedA == Record("A", FALSE, None, << >>)

\* C29: on a scored non-shadow secondary, total_sufficiently_unique is
\* incremented iff the pending primary is mapped with matches per column
\* of at least 0.95 and the secondary's matches per column are below 0.85
\* (0.95 itself counts, 0.85 itself does not); when the pending primary is
\* unmapped it is never incremented.
C29_SufficientlyUniqueOnSecondary ==
    /\ [][(ReadStep /\ ScoredSecondaryAt(pos)' /\ failure' = "none") =>
             stats_dict'.total_sufficiently_unique =
                 stats_dict.total_sufficiently_unique
                     + (IF /\ MappedPrimary(stream[pos])
                           /\ RatioAtLeast(stream[pos], 95)
                           /\ ~RatioAtLeast(stream'[pos'], 85)
                        THEN 1 ELSE 0)
         ]_vars
    /\ [](epc = "written" =>
            /\ stream = <<PrimaryA95, Record("A", TRUE, 30, SubstPath)>>
                  => stats_dict.total_sufficiently_unique = 1
            /\ stream = <<PrimaryA50, Record("A", TRUE, 30, Path85)>>
                  => stats_dict.total_sufficiently_unique = 0
            /\ stream = <<UnmappedA, Record("A", TRUE, 30, SubstPath)>>
                  => stats_dict.total_sufficiently_unique = 0)

\* A primary with matches per column of exactly 0.95 and its secondary
\* without any match were scanned to the end: the read counts as
\* sufficiently unique.
C29_Witness ==
    /\ epc = "written"
    /\ stream = <<PrimaryA95, Record("A", TRUE, 30, SubstPath)>>
    /\ stats_dict.total_sufficiently_unique = 1
    /\ stats_dict.total_secondary_visible = 1

UnmappedPrimary(r) == ~r.is_secondary /\ r.score = None

\* C30: an unmapped primary adds 1 to total_reads and 1 to
\* unmapped_lengths[length] and leaves every other counter and histogram
\* as it is; it becomes the pending primary with no ratio, and it never
\* receives a synthesized advantage entry, neither when another primary
\* replaces it nor at the end of the stream.
C30_UnmappedPrimaryFrame ==
    /\ [][(ReadStep /\ UnmappedPrimary(stream'[pos']) /\ failure' = "none") =>
             /\ stats_dict' =
                    [stats_dict EXCEPT
                        !.total_reads = @ + 1,
                        !.unmapped_lengths =
                            @ (+) SetToBag({stream'[pos'].length})]
             /\ last_alignment' = stream'[pos']
             /\ last_matches_per_column' = NoRatio
         ]_vars
    /\ [][(/\ epc = "scan" /\ pos > 0
           /\ last_alignment = stream[pos]
           /\ UnmappedPrimary(stream[pos])
           /\ (EndStep \/ (ReadStep /\ ~stream'[pos'].is_secondary))) =>
             /\ stats_dict'.primary_advantage = stats_dict.primary_advantage
             /\ stats_dict'.total_secondary_visible
                    = stats_dict.total_secondary_visible
             /\ stats_dict'.total_sufficiently_unique
                    = stats_dict.total_sufficiently_unique
         ]_vars

\* An unmapped primary was replaced by another unmapped primary, which
\* ended the stream: two reads, two unmapped lengths, no advantage entry.
C30_Witness ==
    /\ epc = "written"
    /\ stream = <<UnmappedA, Record("B", FALSE, None, << >>)>>
    /\ stats_dict.total_reads = 2
    /\ stats_dict.unmapped_lengths = SetToBag({2}) (+) SetToBag({2})
    /\ stats_dict.primary_advantage = EmptyBag
    /\ stats_dict.total_secondary_visible = 0

\* C37: after every processed record and after finalization, the sum of
\* all counts in primary_advantage equals total_secondary_visible, and
\* total_sufficiently_unique and total_multimapped are at most
\* total_secondary_visible.
C37_AdvantageSumIsVisible ==
    /\ BagCardinality(stats_dict.primary_advantage)
           = stats_dict.total_secondary_visible
    /\ stats_dict.total_sufficiently_unique
           <= stats_dict.total_secondary_visible
    /\ stats_dict.total_multimapped <= stats_dict.total_secondary_visible

\* A read with a primary and a secondary, then a lone mapped primary, were
\* scanned to the end: two advantage entries, one of them synthesized.
C37_Witness ==
    /\ epc = "written"
    /\ stream = <<PrimaryA95, Record("A", TRUE, 30, SubstPath),
                  Record("B", FALSE, 50, MatchPath)>>
    /\ stats_dict.primary_advantage = SetToBag({20}) (+) SetToBag({50})
    /\ stats_dict.total_secondary_visible = 2
    /\ stats_dict.total_multimapped = 1

\* The primary records among the first n records of the stream.
PrimariesIn(n) == {i \in 1..n : ~stream[i].is_secondary}

\* C38: after every processed record of an accepted stream, total_reads is
\* the number of primary records seen so far and the sum of the counts in
\* mapped_lengths and unmapped_lengths, total_mapped is the number of
\* scored primary records and at most total_reads, and no secondary
\* record changes total_reads or total_mapped.
C38_ReadAccounting ==
    /\ []((epc \in {"scan", "written"} /\ failure = "none") =>
            /\ stats_dict.total_reads = Cardinality(PrimariesIn(pos))
            /\ stats_dict.total_reads
                   = BagCardinality(stats_dict.mapped_lengths)
                         + BagCardinality(stats_dict.unmapped_lengths)
            /\ stats_dict.total_mapped
                   = Cardinality({i \in PrimariesIn(pos) :
                                      stream[i].score # None})
            /\ stats_dict.total_mapped <= stats_dict.total_reads)
    /\ [][(ReadStep /\ stream'[pos'].is_secondary) =>
             /\ stats_dict'.total_reads = stats_dict.total_reads
             /\ stats_dict'.total_mapped = stats_dict.total_mapped
         ]_vars

\* A mapped primary, its secondary and an unmapped primary were scanned.
C38_Witness ==
    /\ epc = "written"
    /\ stream = <<PrimaryA50, Record("A", TRUE, 30, SubstPath),
                  Record("B", FALSE, None, << >>)>>
    /\ stats_dict.total_reads = 2
    /\ stats_dict.total_mapped = 1
    /\ stats_dict.total_multimapped = 1

\* Record i of the stream is a mapped primary that is not followed by a
\* secondary record of its own read.
LoneMappedPrimaryAt(i) ==
    /\ MappedPrimary(stream[i])
    /\ (i < Len(stream) =>
           ~(stream[i + 1].is_secondary
                /\ stream[i + 1].name = stream[i].name))

\* The advantage entries the first n records of an accepted stream are to
\* be credited: primary score minus secondary score for a scored secondary
\* with a path of its own, the primary's score for a lone mapped primary.
RECURSIVE ExpectedAdvantage(_)
ExpectedAdvantage(n) ==
    IF n = 0 THEN EmptyBag
    ELSE ExpectedAdvantage(n - 1)
            (+) (IF stream[n].is_secondary
                 THEN IF stream[n].score # None
                         /\ stream[n].path # stream[n - 1].path
                      THEN SetToBag({Get(stream[n - 1].score, 0)
                                        - stream[n].score})
                      ELSE EmptyBag
                 ELSE IF LoneMappedPrimaryAt(n)
                      THEN SetToBag({stream[n].score})
                      ELSE EmptyBag)

\* C39: at the end of every accepted stream, every mapped primary record
\* that was not followed by a secondary record of its own read has been
\* credited exactly one primary_advantage entry keyed by its own score and
\* one total_secondary_visible unit, whatever kind of record followed it
\* (another mapped primary, an unmapped primary, or the end of the stream).
C39_EveryLonePrimaryCredited ==
    (epc = "written" /\ run_no = 1) =>
        /\ stats_dict.primary_advantage = ExpectedAdvantage(Len(stream))
        /\ stats_dict.total_secondary_visible
               = BagCardinality(ExpectedAdvantage(Len(stream)))


\* The scheduling node that classifies sample s runs in this step.
Classified(s) == \E r \in ran' \ ran : s \in Range(r.run_now)

\* C36: in one scheduling tree the alignment key of a unit is written by its
\* one run_alignment task only and its stats key by its one run_stats task
\* only; run_stats, which reads the alignment, exists only once
\* run_alignment has ended, and no second task of either kind follows; the
\* node that classifies a unit runs while no task of that unit exists, so
\* no task of the tree changes the metadata it reads.
C36_OneWriterPerKey ==
    [][\A s \in DOMAIN task :
        /\ gam'[s] # gam[s] => (task[s] = "align" /\ task'[s] = "stats")
        /\ stats'[s] # stats[s] => (task[s] = "stats" /\ task'[s] = "done")
        /\ task[s] \notin {"none", "align"} => task'[s] # "align"
        /\ task[s] \in {"done", "align_failed", "stats_failed"}
              => task'[s] = task[s]
        /\ Classified(s) => (task[s] = "none" /\ leaf[s] = "none")
        /\ task[s] # "none" => ~Classified(s)]_vars

\* The tasks of two units interleaved: the alignment of one was uploaded
\* between the upload of the other's alignment and the writing of its stats.
C36_Witness ==
    \E s, u \in DOMAIN task :
        /\ s # u
        /\ leaf[s] = "align" /\ task[s] = "done"
        /\ leaf[u] = "align" /\ task[u] \in {"stats", "done"}
        /\ gam[s].mtime < gam[u].mtime
        /\ gam[u].mtime < stats[s]

\* The policy of a planning pass with no flag and no age threshold set.
PlainPolicy ==
    [overwrite |-> FALSE, restat |-> FALSE, reindex |-> FALSE,
     alignments_too_old |-> None, stats_too_old |-> None,
     min_gam_size |-> options.min_gam_size]

\* The stats artifact was written after the alignment artifact stored under
\* the alignment key, which run_stats had read.
StatsOfStoredAlignment(g, st) ==
    /\ st # None
    /\ g # AbsentGam
    /\ st > g.mtime

\* C35: when the run started from a store in which every stats artifact was
\* computed from the stored alignment, then after the run, whatever tasks
\* failed, every sample a planning pass without age thresholds classifies
\* complete has stats computed from the alignment now stored.
C35_CompleteMeansStatsOfStoredAlignment ==
    (/\ report # "none"
     /\ \A s \in DOMAIN seen.stats :
            seen.stats[s] # None
                => StatsOfStoredAlignment(seen.gam[s], seen.stats[s]))
        => \A s \in CompletedSamples(PlainPolicy, gam, stats) :
                StatsOfStoredAlignment(gam[s], stats[s])

\* The policy of a second planning pass: no flag set, the given thresholds.
SecondPass(ato, sto) ==
    [overwrite |-> FALSE, restat |-> FALSE, reindex |-> FALSE,
     alignments_too_old |-> ato, stats_too_old |-> sto,
     min_gam_size |-> options.min_gam_size]

\* The thresholds of a second pass: none, or an instant not later than the
\* start of the first run.
EarlierThresholds == {None} \cup (0..MaxTime)

\* The first run has ended, no task of it failed, and every alignment it
\* produced is large enough.
RunSucceeded ==
    /\ report = "success"
    /\ \A s \in DOMAIN gam :
          gam[s] # seen.gam[s] => gam[s].size >= options.min_gam_size

\* C34: after a run in which every task succeeded and every produced
\* alignment is large enough, a second planning pass without flags and with
\* thresholds not later than the start of the first run finds no sample to
\* run, so it returns early.
C34_SecondPassFindsNothing ==
    RunSucceeded =>
        \A ato, sto \in EarlierThresholds :
            LET o == SecondPass(ato, sto)
            IN  Len(SamplesToRun(o, CompletedSamples(o, gam, stats),
                                 input_samples)) = 0
(* ------------------------ server list properties ----------------------- *)
\* run_region_alignments of line l returns without raising in this step.
RegionReturns(l) ==
    /\ region_job[l] = "download"
    /\ region_job'[l] \notin {"download", "region_failed"}

\* The index of line l is available to the jobs that align against it.
IndexAvailable(l) ==
    \/ index_dir_id[l] = "read" /\ ~reindex /\ index_exists[l]
    \/ index_dir_id[l] = "built" /\ index_exists[l]

\* The root scheduling node of line l, of which every other node and every
\* task of the line descends, has started.
SamplesStarted(l) == region_job[l] \in {"samples", "done"}

\* C32 as stated: no scheduling node and no task of a line starts before the
\* index is available (read from the store with reindex false and the key
\* present, or built and uploaded), and a returning run_region_alignments
\* has the index rebuilt if and only if reindex is set or the index key is
\* absent.
C32_IndexRebuiltIffReindexOrAbsent ==
    [][\A l \in Lines :
        /\ SamplesStarted(l)' => IndexAvailable(l)'
        /\ RegionReturns(l) =>
            (region_job'[l] = "index_queued"
                <=> (reindex \/ ~index_exists[l]))]_vars

\* C32 amended: the same, but the index is rebuilt if and only if reindex is
\* set, or the index key is absent and some sample is left to run.
C32_IndexRebuiltWhenNeeded ==
    [][\A l \in Lines :
        /\ SamplesStarted(l)' => IndexAvailable(l)'
        /\ RegionReturns(l) =>
            (region_job'[l] = "index_queued"
                <=> (reindex \/ (~index_exists[l] /\ has_samples[l])))]_vars

\* One line returned early with no index under its key while the tree of
\* another line runs on an index that was built and uploaded.
C32_Witness ==
    \E l, k \in Lines :
        /\ region_job[l] = "returned" /\ ~index_exists[l]
        /\ region_job[k] = "samples" /\ index_dir_id[k] = "built"

\* A region job of line l is running: the download of
\* run_region_alignments or the indexing of index_region_and_run_samples.
RegionJobRunning(l) == region_job[l] \in {"download", "indexing"}

\* C33: with serialize_downloads set, no two region jobs of different lines
\* of the server list run at the same time.
C33_OneRegionJobAtATime ==
    serialize_downloads =>
        \A l, k \in Lines :
            (RegionJobRunning(l) /\ RegionJobRunning(k)) => l = k
====
